---- MODULE Spec2Model ----
(***************************************************************************)
(* Model of the property-services search API: the quota-gated upstream     *)
(* client (attom.Client), the resolve handler with its Redis SWR protocol, *)
(* the background refresher and the Refetch closure wired in main, and the *)
(* bulk job of the hydrator command.                                       *)
(***************************************************************************)
EXTENDS Integers, Sequences, FiniteSets, TLC

\* ------------------------------------------------------------------------
\* Program constants and model bounds
\* ------------------------------------------------------------------------

\* rc.RetryMax = 3
RetryMax == 3

\* rc.HTTPClient.Timeout = 8 * time.Second, per attempt
HTTPTimeout == 8

\* SetNX(ctx, "prop:lock:"+pkey, "1", 8*time.Second)
LockTTL == 8

\* NegativeTTL: 60 * time.Second
NegativeTTL == 60

\* StaleAfter: 5 * time.Minute
StaleAfterDur == 300

\* CacheTTL: time.Hour
CacheTTL == 3600

\* context.WithTimeout(context.Background(), 15*time.Second) of a refresh
RefreshTimeout == 15

\* rdb.Set(ctx, cacheKey+":touch", ..., 5*time.Second)
TouchTTL == 5

\* refresh.New(256, 2, ...): queue capacity and worker count
QueueCap == 256
Workers == {"w1", "w2"}

\* the clock of the wired system stops here
MaxTime == 16

\* property keys in play
Keys == {"k1"}

\* keys of the jobs handed to the Refresher
JobKeys == {"k1", "k2"}

\* capacity argument of refresh.New in the runs of the Refresher alone
SmallCap == 1

\* the bulk job's configuration, kept small: number of (zip, propertyType)
\* pairs, Config.MaxPagesPerZip, Config.PageSize
PairCount == 2
BulkMaxPages == 2
BulkPageSize == 2

\* dailyLimit argument of NewClientWithLimits, kept small; the server of the
\* stale-while-revalidate runs gets a smaller one
DailyLimit == 2
SWRLimit == 1

\* number of UTC days the clock runs through
MaxDay == 2

\* The two processes built from this repository, each constructing its own
\* attom.Client: the search-api server and the hydrator command.
Clients == {"server", "hydrator"}

\* Call sites of the client: the resolve handler (cold fetch), the
\* goroutines spawned by Refetch, and the bulk job of the hydrator command.
Reqs == {"r1", "r2"}
Gors == {"g1", "g2"}
Bulks == {"b1"}
Procs == Reqs \cup Gors \cup Bulks

\* call sites that drive the server's client on their own in SpecClient
Callers == {"r1", "g1"}

\* call sites of both processes, one per path, in SpecBudget
BudgetCallers == {"r1", "g1", "b1"}

Days == 1..MaxDay

\* What one network attempt can end in: an HTTP status or a transport error.
Outcomes == {"200", "404", "429", "500", "501", "neterr"}

\* the answers the provider gives in the wired system
SysOutcomes == {"200", "neterr"}

VARIABLES
    today,      \* current UTC day (time.Now().UTC().Format("2006-01-02"))
    dailyLimit, \* Client.dailyLimit per client instance
    dayKey,     \* Client.dayKey per client instance, 0 = ""
    dayCount,   \* Client.dayCount per client instance
    sent,       \* network attempts handed to base.RoundTrip, per client and
                \* per UTC day (the day the request computed for itself)
    call,       \* per call site: the state of its upstream call
    now,        \* wall clock in seconds
    miss,       \* Redis prop:miss:<key>: expiry time, 0 = absent
    env,        \* Redis prop:pk:<key>: the envelope, NoEnv = absent
    lock,       \* Redis prop:lock:<key>: expiry time, 0 = absent
    touch,      \* Redis prop:pk:<key>:touch: expiry time, 0 = absent
    req,        \* per resolve request: position in resolve and its response
    gor,        \* per goroutine spawned by Refetch: position and job
    ch,         \* Refresher.ch
    inFly,      \* Refresher.inFly
    worker,     \* per Refresher.worker goroutine: position and job
    capacity,   \* cap(Refresher.ch)
    bulk,       \* the BulkJob of the hydrator command: position in RunOnce,
                \* its context and what the run returned
    store,      \* the committed rows of the relational store
    tx,         \* the store call in progress and its open transaction
    canon,      \* a caller of canon.Canonicalize: its input and results
    limiter,    \* Client.limiter per client instance: whether there is one,
                \* and the tokens in its bucket
    pub,        \* the events.Publisher of the process: inMemory.ch and its
                \* capacity
    redisUp     \* whether the Redis server answers commands

redisVars == <<miss, env, lock, touch>>
refVars == <<ch, inFly, worker, capacity>>
sysVars == <<now, miss, env, lock, touch, req, gor, ch, inFly, worker, capacity>>
vars == <<dailyLimit, today, dayKey, dayCount, sent, call, now, miss, env, lock, touch,
          req, gor, ch, inFly, worker, capacity, bulk, store, tx, canon, limiter,
          pub, redisUp>>

\* the client instance a call site uses
ClientOf(p) == IF p \in Bulks THEN "hydrator" ELSE "server"

IdleCall ==
    [pc |-> "idle", i |-> 0, dayRead |-> 0, resp |-> "none", result |-> "none",
     deadline |-> 0]

\* entry of SearchByPostal / SearchListingsByPostal / GetPhotos: the request
\* is built and handed to retryablehttp.Client.Do, first attempt i = 0
StartCall(t) ==
    [pc |-> "wait", i |-> 0, dayRead |-> 0, resp |-> "none", result |-> "none",
     deadline |-> t + HTTPTimeout]

\* retryablehttp.DefaultRetryPolicy (v0.7.7): a done context stops with
\* ctx.Err(); a transport error, a 429 and a 5xx other than 501 are retried;
\* a 5xx also yields a non-nil check error
DefaultRetryPolicy(o) ==
    CASE o = "neterr" -> [retry |-> TRUE,  err |-> "nil"]
      [] o = "429"    -> [retry |-> TRUE,  err |-> "nil"]
      [] o = "500"    -> [retry |-> TRUE,  err |-> "status"]
      [] o = "ctx"    -> [retry |-> FALSE, err |-> "ctx"]
      [] OTHER        -> [retry |-> FALSE, err |-> "nil"]

\* a check that hands the gate's refusal to the default policy, which
\* retries any error
CheckRetryNoQuotaStop(o) ==
    IF o = "quota" THEN [retry |-> TRUE, err |-> "nil"]
    ELSE DefaultRetryPolicy(o)

\* rc.CheckRetry: ErrDailyLimitExceeded from the gate stops at once
CheckRetry(o) ==
    IF o = "quota" THEN [retry |-> FALSE, err |-> "quota"]
    ELSE DefaultRetryPolicy(o)

\* what retryablehttp.Client.Do returns once the loop is left
\*   "resp"  : (resp, nil), the caller sees the status code
\*   "quota" : error wrapping ErrDailyLimitExceeded
\*   "error" : any other error ("giving up after n attempt(s)")
DoReturn(o) ==
    LET cr == CheckRetry(o) IN
    IF o \notin {"neterr", "quota", "ctx"} /\ cr.err = "nil" /\ ~cr.retry THEN "resp"
    ELSE IF cr.err = "quota" THEN "quota"
    ELSE "error"

\* the tail of SearchByPostal & co: err, 429, >= 400, body
CallResult(o) ==
    LET d == DoReturn(o) IN
    IF d # "resp" THEN d
    ELSE IF o = "429" THEN "quota"
    ELSE IF o \in {"404", "500", "501"} THEN "error"
    ELSE "ok"

\* the retry loop of Do after attempt i ended in o
AfterAttempt(c, o, t) ==
    LET cr == CheckRetry(o) IN
    IF cr.retry /\ RetryMax - c.i > 0
    THEN [c EXCEPT !.pc = "wait", !.i = c.i + 1, !.resp = o, !.dayRead = 0,
                   !.deadline = t + HTTPTimeout]
    ELSE [c EXCEPT !.pc = "done", !.resp = o, !.result = CallResult(o),
                   !.dayRead = 0, !.deadline = 0]

\* defaultRateBurst: the size of the limiter's bucket
RateBurst == 3

\* c.limiter == nil (perSecond <= 0). The runs that are not about the limiter
\* are made without one: there a call leaves limiter.Wait whenever it is
\* scheduled, or is ended in it by its context.
NoLimiter == [on |-> FALSE, tokens |-> 0, burst |-> 0]

\* rate.NewLimiter(rate.Limit(perSecond), burst): the bucket starts full
NewLimiter(burst) ==
    LET b == IF burst <= 0 THEN 1 ELSE burst IN
    [on |-> TRUE, tokens |-> b, burst |-> b]

\* a limiter whose Wait returns at once with the bucket empty
TokenReadyAlways(l) == TRUE

\* limiter.Wait returns nil: there is no limiter, or the bucket holds a token
TokenReady(l) == ~l.on \/ l.tokens > 0

\* the bucket after Wait has taken its token
TakeToken(l) == IF l.on THEN [l EXCEPT !.tokens = @ - 1] ELSE l

\* beforeRequest, first half: limiter.Wait, then the day key is computed
\* from time.Now() before the mutex is taken
BeforeRequestReadDay(p) ==
    /\ call[p].pc = "wait"
    /\ TokenReady(limiter[ClientOf(p)])
    /\ limiter' = [limiter EXCEPT ![ClientOf(p)] = TakeToken(@)]
    /\ IF dailyLimit[ClientOf(p)] <= 0
       THEN /\ call' = [call EXCEPT ![p].pc = "net"]
            /\ sent' = [sent EXCEPT ![ClientOf(p)][today] = @ + 1]
       ELSE /\ call' = [call EXCEPT ![p].pc = "gate", ![p].dayRead = today]
            /\ sent' = sent
    /\ UNCHANGED <<redisUp, pub, store, tx, canon, bulk, dailyLimit, today, dayKey, dayCount>>
    /\ UNCHANGED sysVars

\* limiter.Wait returns an error and beforeRequest returns it, so that
\* RoundTrip ends without base.RoundTrip: the caller's context is done
\* (byCaller), or the bucket is empty and the next token would come after
\* the deadline http.Client.Timeout puts on the attempt. The first ends Do
\* with ctx.Err(); the second is to Do an error of the attempt like any
\* transport error.
LimiterWaitError(p, byCaller) ==
    /\ call[p].pc = "wait"
    /\ limiter[ClientOf(p)].on
    /\ byCaller \/ ~TokenReady(limiter[ClientOf(p)])
    /\ call' = [call EXCEPT ![p] =
                   AfterAttempt(call[p], IF byCaller THEN "ctx" ELSE "neterr", now)]
    /\ UNCHANGED <<redisUp, pub, store, tx, canon, bulk, limiter, dailyLimit, today, dayKey, dayCount, sent>>
    /\ UNCHANGED sysVars

\* the bucket of client c gains a token with the passing of time
Refill(c) ==
    /\ limiter[c].on
    /\ limiter[c].tokens < limiter[c].burst
    /\ limiter' = [limiter EXCEPT ![c].tokens = @ + 1]
    /\ UNCHANGED <<redisUp, pub, store, tx, canon, bulk, dailyLimit, today, dayKey, dayCount, sent, call>>
    /\ UNCHANGED sysVars

\* a gate that keeps the counter across day keys
ResetCountNever(stored, key, count) == count

\* the counter the limit check sees: reset when the day key differs
ResetCount(stored, key, count) == IF stored # key THEN 0 ELSE count

\* the limit check
LimitReached(limit, count) == limit > 0 /\ count >= limit

\* beforeRequest, second half, under c.mu: reset on a new day key, refuse at
\* the limit, otherwise count the request and send it (base.RoundTrip)
BeforeRequestGate(p) ==
    LET c == ClientOf(p)
        key == call[p].dayRead
        cnt == ResetCount(dayKey[c], key, dayCount[c])
    IN
    /\ call[p].pc = "gate"
    /\ dayKey' = [dayKey EXCEPT ![c] = key]
    /\ IF LimitReached(dailyLimit[c], cnt)
       THEN /\ dayCount' = [dayCount EXCEPT ![c] = cnt]
            /\ call' = [call EXCEPT ![p] = AfterAttempt(call[p], "quota", now)]
            /\ sent' = sent
       ELSE /\ dayCount' = [dayCount EXCEPT ![c] = cnt + 1]
            /\ call' = [call EXCEPT ![p].pc = "net"]
            /\ sent' = [sent EXCEPT ![c][key] = @ + 1]
    /\ UNCHANGED <<redisUp, pub, store, tx, canon, bulk, limiter, dailyLimit, today>>
    /\ UNCHANGED sysVars

\* the provider (or the network) answers the attempt in flight
Respond(p, o) ==
    /\ call[p].pc = "net"
    /\ call' = [call EXCEPT ![p] = AfterAttempt(call[p], o, now)]
    /\ UNCHANGED <<redisUp, pub, store, tx, canon, bulk, limiter, dailyLimit, today, dayKey, dayCount, sent>>
    /\ UNCHANGED sysVars

\* a call site invokes the client
Invoke(p) ==
    /\ call[p].pc = "idle"
    /\ call' = [call EXCEPT ![p] = StartCall(now)]
    /\ UNCHANGED <<redisUp, pub, store, tx, canon, bulk, limiter, dailyLimit, today, dayKey, dayCount, sent>>
    /\ UNCHANGED sysVars

\* the call site takes the result
Return(p) ==
    /\ call[p].pc = "done"
    /\ call' = [call EXCEPT ![p] = IdleCall]
    /\ UNCHANGED <<redisUp, pub, store, tx, canon, bulk, limiter, dailyLimit, today, dayKey, dayCount, sent>>
    /\ UNCHANGED sysVars

\* midnight UTC passes
NextDay ==
    /\ today < MaxDay
    /\ today' = today + 1
    /\ UNCHANGED <<redisUp, pub, store, tx, canon, bulk, limiter, dailyLimit, dayKey, dayCount, sent, call>>
    /\ UNCHANGED sysVars

\* ------------------------------------------------------------------------
\* The wired server: resolve handler, Redis, Refetch closure, Refresher
\* ------------------------------------------------------------------------

NoEnv == [lastFetch |-> 0, staleAfter |-> 0, expiry |-> 0, data |-> "none"]

\* maxDur(a, b): a if positive, else b
MaxDur(a, b) == IF a > 0 THEN a ELSE b

\* the envelope resolve writes at time t: stale after
\* maxDur(d.StaleAfter, 5m), expiring after maxDur(d.CacheTTL, 1h)
ResolveEnvelope(t, d) ==
    [lastFetch |-> t,
     staleAfter |-> t + MaxDur(StaleAfterDur, 300),
     expiry |-> t + MaxDur(CacheTTL, 3600),
     data |-> d]

\* an envelope whose staleAfter is the fetch time itself
RefetchEnvelopeNoGrace(t, d) ==
    [lastFetch |-> t, staleAfter |-> t, expiry |-> t + 3600, data |-> d]

\* the envelope the Refetch goroutine writes at time t: 5 minutes, one hour
RefetchEnvelope(t, d) ==
    [lastFetch |-> t, staleAfter |-> t + 300, expiry |-> t + 3600, data |-> d]

\* A search payload: either not of the expected shape, or a first page of
\* candidates; "a" and "b" are candidates whose canonical (line1, city,
\* state) equals the query's, "x" is any other candidate.
Pages == {<<>>, <<"a">>, <<"x">>, <<"x", "a">>, <<"a", "b">>, <<"x", "x">>}
Matching == {"a", "b"}
Payloads == {[ok |-> FALSE, cards |-> <<>>]} \cup {[ok |-> TRUE, cards |-> s] : s \in Pages}

\* a scan that keeps the last matching candidate instead of the first
LastMatch(cards) ==
    IF \E j \in 1..Len(cards) : cards[j] \in Matching
    THEN CHOOSE j \in 1..Len(cards) :
            cards[j] \in Matching /\ \A m \in (j + 1)..Len(cards) : cards[m] \notin Matching
    ELSE 0

\* index of the first candidate matching the query, 0 if none
FirstMatch(cards) ==
    IF \E j \in 1..Len(cards) : cards[j] \in Matching
    THEN CHOOSE j \in 1..Len(cards) :
            cards[j] \in Matching /\ \A m \in 1..(j - 1) : cards[m] \notin Matching
    ELSE 0

\* the card the fetch returns
MatchedCard(cards) == cards[FirstMatch(cards)]

\* fetchResolveRaw: what the cold fetch makes of the call result and payload
\*   outcome: "quota" / "error" (call failed), "maperr", "nomatch", "found"
FetchOutcome(result, payload) ==
    IF result # "ok" THEN result
    ELSE IF ~payload.ok THEN "maperr"
    ELSE IF FirstMatch(payload.cards) = 0 THEN "nomatch"
    ELSE "found"

\* the "found" flag fetchResolveRaw returns
FetchFound(result, payload) == FetchOutcome(result, payload) = "found"

\* a resolve request: position, canonical key, response (status/source, stale
\* flag, data), what the cold fetch saw (outcome, first page, write-behind
\* result, number of postal searches), what Refetch did, and whether the
\* request's context has been cancelled
IdleReq ==
    [pc |-> "idle", key |-> "none", resp |-> "none", stale |-> FALSE,
     data |-> "none", fetch |-> "none", cards |-> <<>>, persist |-> "none",
     searches |-> 0, spawned |-> FALSE, enq |-> "none", cancelled |-> FALSE]
IdleGor == [pc |-> "idle", key |-> "none", deadline |-> 0]
IdleWorker == [pc |-> "idle", key |-> "none"]

\* render.JSON of a cache hit: source=cache, the stale flag, env.Data
Respond200Cache(rq, st, d) ==
    [rq EXCEPT !.pc = "done", !.resp = "200cache", !.stale = st, !.data = d]

\* a Redis command issued with the request's context goes through only
\* while the server answers and that context is live (go-redis returns the
\* connection error or ctx.Err() otherwise)
RedisOK(r) == redisUp /\ ~req[r].cancelled

\* what Hydrator.Write can do for the write-behind: "none" (no hydrator
\* wired, PG_DSN unset), "ok", "err"
Persists == {"none", "ok", "err"}

\* a resolve that reports the write-behind failure to the client
AfterPersistFail(resp, pw) == IF pw = "err" THEN "500" ELSE resp

\* _ = d.Hydrator.Write(...): the error is discarded, the response stands
AfterPersist(resp, pw) == resp

\* resolve, entry: validation and canonicalization
ResolveStart(r, k, valid) ==
    /\ req[r].pc = "idle"
    /\ req' = [req EXCEPT ![r] =
                 IF valid THEN [IdleReq EXCEPT !.pc = "exists", !.key = k]
                 ELSE [IdleReq EXCEPT !.pc = "done", !.resp = "400"]]
    /\ UNCHANGED <<redisUp, pub, store, tx, canon, bulk, limiter, dailyLimit, today, dayKey, dayCount, sent, call, now, gor>>
    /\ UNCHANGED <<redisVars, refVars>>

\* a lookup that never finds the marker
MarkerPresentNever(k) == FALSE

\* prop:miss:<key> exists
MarkerPresent(k) == miss[k] # 0

\* d.Redis.Exists(ctx, missKey)
ResolveExists(r) ==
    /\ req[r].pc = "exists"
    /\ req' = [req EXCEPT ![r] =
                 IF RedisOK(r) /\ MarkerPresent(req[r].key)
                 THEN [@ EXCEPT !.pc = "done", !.resp = "404cooldown"]
                 ELSE [@ EXCEPT !.pc = "get"]]
    /\ UNCHANGED <<redisUp, pub, store, tx, canon, bulk, limiter, dailyLimit, today, dayKey, dayCount, sent, call, now, gor>>
    /\ UNCHANGED <<redisVars, refVars>>

\* a test that finds every envelope stale
IsStaleAlways(e, t) == TRUE

\* stale := time.Now().After(env.Meta.StaleAfter)
IsStale(e, t) == t > e.staleAfter

\* d.Redis.Get(ctx, cacheKey) and the staleness test
ResolveGet(r) ==
    LET e == env[req[r].key] IN
    /\ req[r].pc = "get"
    /\ req' = [req EXCEPT ![r] =
                 IF ~RedisOK(r) \/ e = NoEnv THEN [@ EXCEPT !.pc = "setnx"]
                 ELSE IF IsStale(e, now) THEN [@ EXCEPT !.pc = "refetch", !.stale = TRUE, !.data = e.data]
                 ELSE Respond200Cache(@, FALSE, e.data)]
    /\ UNCHANGED <<redisUp, pub, store, tx, canon, bulk, limiter, dailyLimit, today, dayKey, dayCount, sent, call, now, gor>>
    /\ UNCHANGED <<redisVars, refVars>>

\* refresh.New: a capacity that is not positive becomes 256
NewCapacity(c) == IF c <= 0 THEN 256 ELSE c

\* a LoadOrStore that never finds the key
LoadOrStoreExistsNever(k) == FALSE

\* r.inFly.LoadOrStore(j.PropertyKey, struct{}{}): the "exists" result
LoadOrStoreExists(k) == k \in inFly

\* a LoadOrStore that reports the key absent without storing it
LoadOrStoreStoredNot(k) == inFly

\* r.inFly.LoadOrStore(j.PropertyKey, struct{}{}) on an absent key: the
\* in-flight set with the key stored
LoadOrStoreStored(k) == inFly \cup {k}

\* a worker whose deferred function leaves the mark in place
AfterDoKeep(k) == inFly

\* the in-flight set after the worker's deferred r.inFly.Delete
AfterDo(k) == inFly \ {k}

\* the default branch of the select: the channel buffer is full
Saturated == Len(ch) >= capacity

\* a drop that leaves the mark in place
AfterDropKeep(k) == inFly

\* the in-flight set after the drop: r.inFly.Delete(j.PropertyKey)
AfterDrop(k) == inFly \ {k}

\* d.Refetch on a stale hit: the closure starts a goroutine that will do the
\* refresh, then calls ref.Enqueue, whose first step is inFly.LoadOrStore
ResolveRefetch(r, g) ==
    LET k == req[r].key IN
    /\ req[r].pc = "refetch"
    /\ gor[g].pc = "idle"
    /\ gor' = [gor EXCEPT ![g] = [pc |-> "spawned", key |-> k, deadline |-> 0]]
    /\ IF LoadOrStoreExists(k)
       THEN /\ req' = [req EXCEPT ![r] =
                         Respond200Cache([@ EXCEPT !.spawned = TRUE, !.enq = "dup"], TRUE, req[r].data)]
            /\ inFly' = inFly
       ELSE /\ req' = [req EXCEPT ![r].pc = "send", ![r].spawned = TRUE]
            /\ inFly' = LoadOrStoreStored(k)
    /\ UNCHANGED <<redisUp, pub, store, tx, canon, bulk, limiter, dailyLimit, today, dayKey, dayCount, sent, call, now, ch, worker, capacity>>
    /\ UNCHANGED redisVars

\* Enqueue, second step: non-blocking send, drop and un-mark when saturated;
\* then resolve serves the cached value
ResolveSend(r) ==
    LET k == req[r].key IN
    /\ req[r].pc = "send"
    /\ IF ~Saturated
       THEN /\ ch' = Append(ch, k)
            /\ inFly' = inFly
            /\ req' = [req EXCEPT ![r] = Respond200Cache([@ EXCEPT !.enq = "sent"], TRUE, req[r].data)]
       ELSE /\ ch' = ch
            /\ inFly' = AfterDrop(k)
            /\ req' = [req EXCEPT ![r] = Respond200Cache([@ EXCEPT !.enq = "dropped"], TRUE, req[r].data)]
    /\ UNCHANGED <<redisUp, pub, store, tx, canon, bulk, limiter, dailyLimit, today, dayKey, dayCount, sent, call, now, gor, worker, capacity>>
    /\ UNCHANGED redisVars

\* a set-if-absent that always succeeds
LockFreeAlways(k) == TRUE

\* prop:lock:<key> is absent, so SETNX sets it
LockFree(k) == lock[k] = 0

\* a handler that goes on to the fetch when SetNX fails
SetNXOkOnError(r, k) == ~RedisOK(r) \/ LockFree(k)

\* ok of "ok, _ := d.Redis.SetNX(...)": false when the command failed,
\* whose error is discarded, as when the key exists
SetNXOk(r, k) == RedisOK(r) /\ LockFree(k)

\* d.Redis.SetNX(ctx, "prop:lock:"+pkey, "1", 8*time.Second); on success the
\* cold fetch starts (fetchResolveRaw calls SearchByPostal)
ResolveSetNX(r) ==
    LET k == req[r].key IN
    /\ req[r].pc = "setnx"
    /\ IF SetNXOk(r, k)
       THEN /\ lock' = [lock EXCEPT ![k] = now + LockTTL]
            /\ call' = [call EXCEPT ![r] = StartCall(now)]
            /\ req' = [req EXCEPT ![r].pc = "fetch", ![r].searches = @ + 1]
       ELSE /\ lock' = lock
            /\ call' = call
            /\ req' = [req EXCEPT ![r] = [@ EXCEPT !.pc = "done", !.resp = "202"]]
    /\ UNCHANGED <<redisUp, pub, store, tx, canon, bulk, limiter, dailyLimit, today, dayKey, dayCount, sent, now, gor, miss, env, touch>>
    /\ UNCHANGED refVars

\* a handler that deletes the lock of key k when its fetch is over
LockAfterFetchReleased(k) == [lock EXCEPT ![k] = 0]

\* prop:lock:* after the fetch: resolve issues no command on the lock after
\* SetNX, on no path
LockAfterFetch(k) == lock

\* the rest of resolve once SearchByPostal has returned: not found writes the
\* negative marker and answers 404; found writes the envelope, runs the
\* write-behind (when a hydrator is wired) and answers 200 fresh
ResolveFetched(r, payload, pw) ==
    LET k == req[r].key
        out == FetchOutcome(call[r].result, payload)
        found == FetchFound(call[r].result, payload)
    IN
    /\ req[r].pc = "fetch"
    /\ call[r].pc = "done"
    /\ call[r].result = "ok" \/ payload = [ok |-> FALSE, cards |-> <<>>]
    /\ found \/ pw = "none"
    /\ IF ~found
       THEN /\ miss' = IF RedisOK(r) THEN [miss EXCEPT ![k] = now + NegativeTTL] ELSE miss
            /\ env' = env
            /\ req' = [req EXCEPT ![r] =
                         [@ EXCEPT !.pc = "done", !.resp = "404", !.fetch = out,
                                   !.cards = payload.cards]]
       ELSE /\ miss' = miss
            /\ env' = IF RedisOK(r)
                      THEN [env EXCEPT ![k] = ResolveEnvelope(now, MatchedCard(payload.cards))]
                      ELSE env
            /\ req' = [req EXCEPT ![r] =
                         [@ EXCEPT !.pc = "done", !.resp = AfterPersist("200fresh", pw),
                                   !.fetch = out, !.cards = payload.cards,
                                   !.data = MatchedCard(payload.cards),
                                   !.persist = pw]]
    /\ call' = [call EXCEPT ![r] = IdleCall]
    /\ lock' = LockAfterFetch(k)
    /\ UNCHANGED <<redisUp, pub, store, tx, canon, bulk, limiter, dailyLimit, today, dayKey, dayCount, sent, now, gor, touch>>
    /\ UNCHANGED refVars

\* the response has been written; the connection serves the next request
ResolveReturn(r) ==
    /\ req[r].pc = "done"
    /\ req' = [req EXCEPT ![r] = IdleReq]
    /\ UNCHANGED <<redisUp, pub, store, tx, canon, bulk, limiter, dailyLimit, today, dayKey, dayCount, sent, call, now, gor>>
    /\ UNCHANGED <<redisVars, refVars>>

\* the context of the request is cancelled: the client went away, or the
\* handler has returned
Cancel(r) ==
    /\ req[r].pc # "idle"
    /\ ~req[r].cancelled
    /\ req' = [req EXCEPT ![r].cancelled = TRUE]
    /\ UNCHANGED <<redisUp, pub, store, tx, canon, bulk, limiter, dailyLimit, today, dayKey, dayCount, sent, call, now, gor>>
    /\ UNCHANGED <<redisVars, refVars>>

\* the Refetch goroutine starts: own 15 s context, then SearchByPostal
GorStart(g) ==
    /\ gor[g].pc = "spawned"
    /\ gor' = [gor EXCEPT ![g].pc = "fetch", ![g].deadline = now + RefreshTimeout]
    /\ call' = [call EXCEPT ![g] = StartCall(now)]
    /\ UNCHANGED <<redisUp, pub, store, tx, canon, bulk, limiter, dailyLimit, today, dayKey, dayCount, sent, now, req>>
    /\ UNCHANGED <<redisVars, refVars>>

\* a refresh context derived from the context of the request that asked for
\* the refresh
GorCtxDoneWithRequest(g) ==
    \/ now >= gor[g].deadline
    \/ \E r \in Reqs : req[r].key = gor[g].key /\ req[r].cancelled

\* ctx of the refresh goroutine is done:
\* context.WithTimeout(context.Background(), 15*time.Second)
GorCtxDone(g) == now >= gor[g].deadline

\* the goroutine's context expires while the call waits or is on the wire
GorTimeout(g) ==
    /\ gor[g].pc = "fetch"
    /\ call[g].pc \in {"wait", "net"}
    /\ GorCtxDone(g)
    /\ call' = [call EXCEPT ![g] = AfterAttempt(call[g], "ctx", now)]
    /\ UNCHANGED <<redisUp, pub, store, tx, canon, bulk, limiter, dailyLimit, today, dayKey, dayCount, sent, now, req, gor>>
    /\ UNCHANGED <<redisVars, refVars>>

\* the rest of the goroutine: on a match the envelope is overwritten
GorFetched(g, payload) ==
    LET k == gor[g].key IN
    /\ gor[g].pc = "fetch"
    /\ call[g].pc = "done"
    /\ call[g].result = "ok" \/ payload = [ok |-> FALSE, cards |-> <<>>]
    /\ env' = IF FetchFound(call[g].result, payload) /\ redisUp
              THEN [env EXCEPT ![k] = RefetchEnvelope(now, MatchedCard(payload.cards))]
              ELSE env
    /\ gor' = [gor EXCEPT ![g] = IdleGor]
    /\ call' = [call EXCEPT ![g] = IdleCall]
    /\ UNCHANGED <<redisUp, pub, store, tx, canon, bulk, limiter, dailyLimit, today, dayKey, dayCount, sent, now, req, miss, lock, touch>>
    /\ UNCHANGED refVars

\* Refresher.worker: for j := range r.ch
WorkerTake(w) ==
    /\ worker[w].pc = "idle"
    /\ ch # <<>>
    /\ worker' = [worker EXCEPT ![w] = [pc |-> "do", key |-> Head(ch)]]
    /\ ch' = Tail(ch)
    /\ UNCHANGED <<redisUp, pub, store, tx, canon, bulk, limiter, dailyLimit, today, dayKey, dayCount, sent, call, now, req, gor, inFly, capacity>>
    /\ UNCHANGED redisVars

\* r.Do as wired in main: only touches prop:pk:<key>:touch
WorkerDo(w) ==
    /\ worker[w].pc = "do"
    /\ touch' = [touch EXCEPT ![worker[w].key] = now + TouchTTL]
    /\ worker' = [worker EXCEPT ![w].pc = "defer"]
    /\ UNCHANGED <<redisUp, pub, store, tx, canon, bulk, limiter, dailyLimit, today, dayKey, dayCount, sent, call, now, req, gor, ch, inFly, capacity>>
    /\ UNCHANGED <<miss, env, lock>>

\* r.Do returns without having set the touch key: the Set failed (Redis
\* unreachable, or the job's context done)
WorkerDoFail(w) ==
    /\ worker[w].pc = "do"
    /\ worker' = [worker EXCEPT ![w].pc = "defer"]
    /\ UNCHANGED <<redisUp, pub, store, tx, canon, bulk, limiter, dailyLimit, today, dayKey, dayCount, sent, call, now, req, gor, ch, inFly, capacity>>
    /\ UNCHANGED redisVars

\* the deferred r.inFly.Delete(j.PropertyKey)
WorkerDefer(w) ==
    /\ worker[w].pc = "defer"
    /\ inFly' = AfterDo(worker[w].key)
    /\ worker' = [worker EXCEPT ![w] = IdleWorker]
    /\ UNCHANGED <<redisUp, pub, store, tx, canon, bulk, limiter, dailyLimit, today, dayKey, dayCount, sent, call, now, req, gor, ch, capacity>>
    /\ UNCHANGED redisVars

\* the deadline that ends the attempt of p on the wire
AttemptDeadline(p) ==
    IF p \in Gors /\ gor[p].deadline < call[p].deadline
    THEN gor[p].deadline
    ELSE call[p].deadline

\* the instants at which something can change by the passing of time alone
Deadlines ==
    {lock[k] : k \in Keys} \cup {miss[k] : k \in Keys}
    \cup {env[k].expiry : k \in Keys}
    \cup {env[k].staleAfter : k \in {x \in Keys : env[x] # NoEnv}}
    \cup {env[k].staleAfter + 1 : k \in {x \in Keys : env[x] # NoEnv}}
    \cup {AttemptDeadline(p) : p \in {x \in Procs : call[x].pc \in {"wait", "gate", "net"}}}

Expire(e, t) == IF e # 0 /\ e <= t THEN 0 ELSE e

\* time passes up to the next such instant; Redis drops the keys whose TTL
\* ran out; an attempt on the wire never outlives its deadline
Tick ==
    LET later == {t \in Deadlines : t > now} IN
    /\ later # {}
    /\ \A p \in Procs : call[p].pc = "net" => now < AttemptDeadline(p)
    /\ LET t == CHOOSE x \in later : \A y \in later : x <= y IN
       /\ t <= MaxTime
       /\ now' = t
       /\ lock' = [k \in Keys |-> Expire(lock[k], t)]
       /\ miss' = [k \in Keys |-> Expire(miss[k], t)]
       /\ touch' = [k \in JobKeys |-> Expire(touch[k], t)]
       /\ env' = [k \in Keys |-> IF env[k].expiry <= t THEN NoEnv ELSE env[k]]
    /\ UNCHANGED <<redisUp, pub, store, tx, canon, bulk, limiter, dailyLimit, today, dayKey, dayCount, sent, call, req, gor>>
    /\ UNCHANGED refVars

\* ------------------------------------------------------------------------
\* canon.Canonicalize
\* ------------------------------------------------------------------------

\* A Go string is a sequence of one-character strings; every string in play
\* is ASCII, so bytes, runes and characters coincide.
Lowers ==
    <<"a", "b", "c", "d", "e", "f", "g", "h", "i", "j", "k", "l", "m", "n", "o", "p", "q", "r", "s", "t", "u", "v", "w", "x", "y", "z">>
Uppers ==
    <<"A", "B", "C", "D", "E", "F", "G", "H", "I", "J", "K", "L", "M", "N", "O", "P", "Q", "R", "S", "T", "U", "V", "W", "X", "Y", "Z">>
Digits == {"0", "1", "2", "3", "4", "5", "6", "7", "8", "9"}

Range(f) == {f[i] : i \in DOMAIN f}

\* unicode.ToUpper / unicode.ToLower on one character
ToUpperChar(c) ==
    IF \E i \in 1..26 : Lowers[i] = c
    THEN Uppers[CHOOSE i \in 1..26 : Lowers[i] = c] ELSE c
ToLowerChar(c) ==
    IF \E i \in 1..26 : Uppers[i] = c
    THEN Lowers[CHOOSE i \in 1..26 : Uppers[i] = c] ELSE c

\* strings.ToUpper, strings.ToLower
ToUpper(s) == [i \in 1..Len(s) |-> ToUpperChar(s[i])]
ToLower(s) == [i \in 1..Len(s) |-> ToLowerChar(s[i])]

\* unicode.IsSpace, which strings.TrimSpace and strings.Fields use, on the
\* characters in play: space and tab; the class \s of the regexp is the same
IsSpace(c) == c \in {" ", "\t"}

\* what rePunct, [^A-Za-z0-9\s], leaves alone
Kept(c) == c \in Range(Lowers) \/ c \in Range(Uppers) \/ c \in Digits \/ IsSpace(c)

\* rePunct.ReplaceAllString(s, " ")
rePunctReplace(s) == [i \in 1..Len(s) |-> IF Kept(s[i]) THEN s[i] ELSE " "]

\* the part of s from position i on
From(s, i) == SubSeq(s, i, Len(s))

\* strings.TrimSpace
TrimSpace(s) ==
    LET ink == {i \in 1..Len(s) : ~IsSpace(s[i])} IN
    IF ink = {} THEN <<>>
    ELSE SubSeq(s, CHOOSE i \in ink : \A j \in ink : i <= j,
                   CHOOSE i \in ink : \A j \in ink : i >= j)

\* t occurs in s at position i (1-based)
OccursAt(s, t, i) == i + Len(t) - 1 <= Len(s) /\ SubSeq(s, i, i + Len(t) - 1) = t

\* strings.Index: the 0-based position of the first occurrence, or -1
Index(s, t) ==
    LET occ == {i \in 1..Len(s) : OccursAt(s, t, i)} IN
    IF occ = {} THEN 0 - 1 ELSE (CHOOSE i \in occ : \A j \in occ : i <= j) - 1

\* strings.ReplaceAll for a non-empty old: non-overlapping, left to right
RECURSIVE ReplaceAll(_, _, _)
ReplaceAll(s, old, new) ==
    LET i == Index(s, old) IN
    IF i < 0 THEN s
    ELSE SubSeq(s, 1, i) \o new \o ReplaceAll(From(s, i + Len(old) + 1), old, new)

\* strings.Fields
RECURSIVE Fields(_)
Fields(s) ==
    LET ink == {i \in 1..Len(s) : ~IsSpace(s[i])} IN
    IF ink = {} THEN <<>>
    ELSE LET a == CHOOSE i \in ink : \A j \in ink : i <= j
             sp == {i \in a..Len(s) : IsSpace(s[i])}
             b == IF sp = {} THEN Len(s) + 1
                  ELSE CHOOSE i \in sp : \A j \in sp : i <= j
         IN <<SubSeq(s, a, b - 1)>> \o Fields(From(s, b))

\* strings.Join
RECURSIVE Join(_, _)
Join(ws, sep) ==
    IF ws = <<>> THEN <<>>
    ELSE IF Len(ws) = 1 THEN ws[1]
    ELSE ws[1] \o sep \o Join(Tail(ws), sep)

collapseSpaces(s) == Join(Fields(s), <<" ">>)

\* trimZIP: the first five bytes of the trimmed zip
trimZIP(z) ==
    LET t == TrimSpace(z) IN IF Len(t) >= 5 THEN SubSeq(t, 1, 5) ELSE t

\* stripUnit's list of unit designators, in its order:
\* " APT ", " UNIT ", " STE ", " SUITE ", " #"
toks ==
    <<<<" ", "A", "P", "T", " ">>,
      <<" ", "U", "N", "I", "T", " ">>,
      <<" ", "S", "T", "E", " ">>,
      <<" ", "S", "U", "I", "T", "E", " ">>,
      <<" ", "#">>>>

\* stripUnit: s is cut at the first designator of the list that occurs in
\* " " + s + " "
RECURSIVE stripUnitFrom(_, _)
stripUnitFrom(s, k) ==
    LET up == <<" ">> \o s \o <<" ">> IN
    IF k > Len(toks) THEN TrimSpace(s)
    ELSE IF Index(up, toks[k]) >= 0 THEN TrimSpace(SubSeq(up, 1, Index(up, toks[k])))
    ELSE stripUnitFrom(s, k + 1)

stripUnit(s) == stripUnitFrom(s, 1)

\* abbreviateSuffix's table repl: 
\* " STREET" -> " ST", " ROAD" -> " RD", " AVENUE" -> " AVE", " BOULEVARD" -> " BLVD", " DRIVE" -> " DR", " LANE" -> " LN"
\* " COURT" -> " CT", " CIRCLE" -> " CIR", " TERRACE" -> " TER", " PLACE" -> " PL", " PARKWAY" -> " PKWY", " HIGHWAY" -> " HWY"
repl ==
    <<<<<<" ", "S", "T", "R", "E", "E", "T">>,
        <<" ", "S", "T">>>>,
      <<<<" ", "R", "O", "A", "D">>,
        <<" ", "R", "D">>>>,
      <<<<" ", "A", "V", "E", "N", "U", "E">>,
        <<" ", "A", "V", "E">>>>,
      <<<<" ", "B", "O", "U", "L", "E", "V", "A", "R", "D">>,
        <<" ", "B", "L", "V", "D">>>>,
      <<<<" ", "D", "R", "I", "V", "E">>,
        <<" ", "D", "R">>>>,
      <<<<" ", "L", "A", "N", "E">>,
        <<" ", "L", "N">>>>,
      <<<<" ", "C", "O", "U", "R", "T">>,
        <<" ", "C", "T">>>>,
      <<<<" ", "C", "I", "R", "C", "L", "E">>,
        <<" ", "C", "I", "R">>>>,
      <<<<" ", "T", "E", "R", "R", "A", "C", "E">>,
        <<" ", "T", "E", "R">>>>,
      <<<<" ", "P", "L", "A", "C", "E">>,
        <<" ", "P", "L">>>>,
      <<<<" ", "P", "A", "R", "K", "W", "A", "Y">>,
        <<" ", "P", "K", "W", "Y">>>>,
      <<<<" ", "H", "I", "G", "H", "W", "A", "Y">>,
        <<" ", "H", "W", "Y">>>>>>

\* abbreviateSuffix: one ReplaceAll per entry of repl. Go ranges over the map
\* in an unspecified order; no replacement of one entry makes or unmakes an
\* occurrence of another entry's key (every key starts with the only space
\* it holds, and no value followed by letters spells another key), so the
\* order of the table is as good as any.
RECURSIVE abbreviateFrom(_, _)
abbreviateFrom(s, k) ==
    IF k > Len(repl) THEN s
    ELSE abbreviateFrom(ReplaceAll(s, repl[k][1], repl[k][2]), k + 1)

abbreviateSuffix(s) == abbreviateFrom(s, 1)

\* stateAbbrev's table m: full state name -> USPS abbreviation
stateNames ==
    <<<<<<"A", "L", "A", "B", "A", "M", "A">>, <<"A", "L">>>>,
      <<<<"A", "L", "A", "S", "K", "A">>, <<"A", "K">>>>,
      <<<<"A", "R", "I", "Z", "O", "N", "A">>, <<"A", "Z">>>>,
      <<<<"A", "R", "K", "A", "N", "S", "A", "S">>, <<"A", "R">>>>,
      <<<<"C", "A", "L", "I", "F", "O", "R", "N", "I", "A">>, <<"C", "A">>>>,
      <<<<"C", "O", "L", "O", "R", "A", "D", "O">>, <<"C", "O">>>>,
      <<<<"C", "O", "N", "N", "E", "C", "T", "I", "C", "U", "T">>, <<"C", "T">>>>,
      <<<<"D", "E", "L", "A", "W", "A", "R", "E">>, <<"D", "E">>>>,
      <<<<"F", "L", "O", "R", "I", "D", "A">>, <<"F", "L">>>>,
      <<<<"G", "E", "O", "R", "G", "I", "A">>, <<"G", "A">>>>,
      <<<<"H", "A", "W", "A", "I", "I">>, <<"H", "I">>>>,
      <<<<"I", "D", "A", "H", "O">>, <<"I", "D">>>>,
      <<<<"I", "L", "L", "I", "N", "O", "I", "S">>, <<"I", "L">>>>,
      <<<<"I", "N", "D", "I", "A", "N", "A">>, <<"I", "N">>>>,
      <<<<"I", "O", "W", "A">>, <<"I", "A">>>>,
      <<<<"K", "A", "N", "S", "A", "S">>, <<"K", "S">>>>,
      <<<<"K", "E", "N", "T", "U", "C", "K", "Y">>, <<"K", "Y">>>>,
      <<<<"L", "O", "U", "I", "S", "I", "A", "N", "A">>, <<"L", "A">>>>,
      <<<<"M", "A", "I", "N", "E">>, <<"M", "E">>>>,
      <<<<"M", "A", "R", "Y", "L", "A", "N", "D">>, <<"M", "D">>>>,
      <<<<"M", "A", "S", "S", "A", "C", "H", "U", "S", "E", "T", "T", "S">>, <<"M", "A">>>>,
      <<<<"M", "I", "C", "H", "I", "G", "A", "N">>, <<"M", "I">>>>,
      <<<<"M", "I", "N", "N", "E", "S", "O", "T", "A">>, <<"M", "N">>>>,
      <<<<"M", "I", "S", "S", "I", "S", "S", "I", "P", "P", "I">>, <<"M", "S">>>>,
      <<<<"M", "I", "S", "S", "O", "U", "R", "I">>, <<"M", "O">>>>,
      <<<<"M", "O", "N", "T", "A", "N", "A">>, <<"M", "T">>>>,
      <<<<"N", "E", "B", "R", "A", "S", "K", "A">>, <<"N", "E">>>>,
      <<<<"N", "E", "V", "A", "D", "A">>, <<"N", "V">>>>,
      <<<<"N", "E", "W", " ", "H", "A", "M", "P", "S", "H", "I", "R", "E">>, <<"N", "H">>>>,
      <<<<"N", "E", "W", " ", "J", "E", "R", "S", "E", "Y">>, <<"N", "J">>>>,
      <<<<"N", "E", "W", " ", "M", "E", "X", "I", "C", "O">>, <<"N", "M">>>>,
      <<<<"N", "E", "W", " ", "Y", "O", "R", "K">>, <<"N", "Y">>>>,
      <<<<"N", "O", "R", "T", "H", " ", "C", "A", "R", "O", "L", "I", "N", "A">>, <<"N", "C">>>>,
      <<<<"N", "O", "R", "T", "H", " ", "D", "A", "K", "O", "T", "A">>, <<"N", "D">>>>,
      <<<<"O", "H", "I", "O">>, <<"O", "H">>>>,
      <<<<"O", "K", "L", "A", "H", "O", "M", "A">>, <<"O", "K">>>>,
      <<<<"O", "R", "E", "G", "O", "N">>, <<"O", "R">>>>,
      <<<<"P", "E", "N", "N", "S", "Y", "L", "V", "A", "N", "I", "A">>, <<"P", "A">>>>,
      <<<<"R", "H", "O", "D", "E", " ", "I", "S", "L", "A", "N", "D">>, <<"R", "I">>>>,
      <<<<"S", "O", "U", "T", "H", " ", "C", "A", "R", "O", "L", "I", "N", "A">>, <<"S", "C">>>>,
      <<<<"S", "O", "U", "T", "H", " ", "D", "A", "K", "O", "T", "A">>, <<"S", "D">>>>,
      <<<<"T", "E", "N", "N", "E", "S", "S", "E", "E">>, <<"T", "N">>>>,
      <<<<"T", "E", "X", "A", "S">>, <<"T", "X">>>>,
      <<<<"U", "T", "A", "H">>, <<"U", "T">>>>,
      <<<<"V", "E", "R", "M", "O", "N", "T">>, <<"V", "T">>>>,
      <<<<"V", "I", "R", "G", "I", "N", "I", "A">>, <<"V", "A">>>>,
      <<<<"W", "A", "S", "H", "I", "N", "G", "T", "O", "N">>, <<"W", "A">>>>,
      <<<<"W", "E", "S", "T", " ", "V", "I", "R", "G", "I", "N", "I", "A">>, <<"W", "V">>>>,
      <<<<"W", "I", "S", "C", "O", "N", "S", "I", "N">>, <<"W", "I">>>>,
      <<<<"W", "Y", "O", "M", "I", "N", "G">>, <<"W", "Y">>>>>>

stateAbbrev(s) ==
    IF \E i \in 1..Len(stateNames) : stateNames[i][1] = s
    THEN stateNames[CHOOSE i \in 1..Len(stateNames) : stateNames[i][1] = s][2]
    ELSE s

\* Canonicalize(line1, city, state, zip): the four normalized fields and the
\* property key
Canonicalize(line1, city, state, zip) ==
    LET n1 == collapseSpaces(abbreviateSuffix(rePunctReplace(
                  stripUnit(TrimSpace(ToUpper(line1))))))
        c == collapseSpaces(rePunctReplace(ToUpper(TrimSpace(city))))
        st0 == ToUpper(TrimSpace(state))
        st == IF Len(st0) > 2 THEN stateAbbrev(st0) ELSE st0
        z == trimZIP(zip)
    IN [line1 |-> n1, city |-> c, state |-> st, zip |-> z,
        key |-> ToLower(n1 \o <<"|">> \o c \o <<"|">> \o st \o <<"|">> \o z)]

\* Raw address lines are made of at most MaxPieces of these pieces:
\* "12 Main", " Street", "\tStreet", " Apt 4", ",Apt 4", " #4", ".", " "
MaxPieces == 2

LinePieces ==
    {<<"1", "2", " ", "M", "a", "i", "n">>,
     <<" ", "S", "t", "r", "e", "e", "t">>,
     <<"\t", "S", "t", "r", "e", "e", "t">>,
     <<" ", "A", "p", "t", " ", "4">>,
     <<",", "A", "p", "t", " ", "4">>,
     <<" ", "#", "4">>,
     <<".">>,
     <<" ">>}

RECURSIVE Lines(_)
Lines(n) ==
    IF n = 0 THEN {<<>>}
    ELSE Lines(n - 1) \cup {l \o p : l \in Lines(n - 1), p \in LinePieces}

RawLines == Lines(MaxPieces)

\* raw cities: "Austin", " St. Paul "
RawCities ==
    {<<"A", "u", "s", "t", "i", "n">>,
     <<" ", "S", "t", ".", " ", "P", "a", "u", "l", " ">>}

\* raw states: "tx", " Texas ", "New York", "Tex"
RawStates ==
    {<<"t", "x">>,
     <<" ", "T", "e", "x", "a", "s", " ">>,
     <<"N", "e", "w", " ", "Y", "o", "r", "k">>,
     <<"T", "e", "x">>}

\* raw zips: "12345", "12345-6789", " 1234 ", "1234 5"
RawZips ==
    {<<"1", "2", "3", "4", "5">>,
     <<"1", "2", "3", "4", "5", "-", "6", "7", "8", "9">>,
     <<" ", "1", "2", "3", "4", " ">>,
     <<"1", "2", "3", "4", " ", "5">>}

NoAddr == [line1 |-> <<>>, city |-> <<>>, state |-> <<>>, zip |-> <<>>, key |-> <<>>]

\* a caller that has not called yet; base is the line of its address with the
\* unit suffix left off, bare what Canonicalize made of the address with
\* that line
IdleCanon ==
    [pc |-> "idle", raw |-> NoAddr, once |-> NoAddr, twice |-> NoAddr,
     base |-> <<>>, bare |-> NoAddr]

\* a caller holding a raw address
CanonInput(l, c, s, z) ==
    [IdleCanon EXCEPT !.pc = "raw",
                      !.raw = [NoAddr EXCEPT !.line1 = l, !.city = c, !.state = s,
                                             !.zip = z]]

\* the caller canonicalizes its raw address
CanonOnce ==
    /\ canon.pc = "raw"
    /\ canon' = [canon EXCEPT
                    !.pc = "once",
                    !.once = Canonicalize(canon.raw.line1, canon.raw.city,
                                          canon.raw.state, canon.raw.zip)]
    /\ UNCHANGED <<redisUp, pub, store, tx, bulk, limiter, dailyLimit, today, dayKey, dayCount, sent, call>>
    /\ UNCHANGED sysVars

\* the caller feeds the normalized fields back into Canonicalize
CanonTwice ==
    /\ canon.pc = "once"
    /\ canon' = [canon EXCEPT
                    !.pc = "twice",
                    !.twice = Canonicalize(canon.once.line1, canon.once.city,
                                           canon.once.state, canon.once.zip)]
    /\ UNCHANGED <<redisUp, pub, store, tx, bulk, limiter, dailyLimit, today, dayKey, dayCount, sent, call>>
    /\ UNCHANGED sysVars

\* the caller canonicalizes the same address without the unit suffix
CanonBare ==
    /\ canon.pc = "once"
    /\ canon' = [canon EXCEPT
                    !.pc = "pair",
                    !.bare = Canonicalize(canon.base, canon.raw.city,
                                          canon.raw.state, canon.raw.zip)]
    /\ UNCHANGED <<redisUp, pub, store, tx, bulk, limiter, dailyLimit, today, dayKey, dayCount, sent, call>>
    /\ UNCHANGED sysVars

\* ------------------------------------------------------------------------
\* The relational store
\* ------------------------------------------------------------------------

\* the provider every caller of Hydrator.Write passes
Provider == "rapidapi.realtor16"

\* SQL NULL, and sqlNullString: the empty string is stored as NULL
Null == "NULL"
sqlNullString(s) == IF s = "" THEN Null ELSE s

\* hex(sha256(payload)): one digest per payload
Sha256(p) == <<"sha256", p>>

\* The tables after Migrate. Rows are never deleted from ingest_properties,
\* ingest_listings and ingest_provider_raw_snapshots, so a row's id is its
\* position; photos[i] holds the ingest_listing_photos rows of listing i, each
\* with its ingest_listing_photo_tags rows.
EmptyStore == [props |-> <<>>, lists |-> <<>>, photos |-> <<>>, snaps |-> <<>>]

\* the UpsertInput Hydrator.Write builds for a card with the given ID,
\* property key, contents v (coordinates, price) and photos, out of payload raw
UpsertInput(id, key, v, photos, raw) ==
    [key |-> key, lat |-> v, provider |-> Provider, src |-> id,
     lid |-> sqlNullString(id), price |-> v, photos |-> photos, ext |-> id,
     raw |-> raw]

NoInput == UpsertInput("", "", 0, <<>>, "")

\* INSERT INTO ingest_properties ... ON CONFLICT (property_key) DO UPDATE:
\* the rows the unique index ux_ingest_properties_property_key sets against
\* the insert
PropertyConflicts(st, in) == {i \in 1..Len(st.props) : st.props[i].key = in.key}

\* ... RETURNING id
PropertyID(st, in) ==
    IF PropertyConflicts(st, in) # {} THEN CHOOSE i \in PropertyConflicts(st, in) : TRUE
    ELSE Len(st.props) + 1

UpsertProperty(st, in) ==
    LET row == [key |-> in.key, lat |-> in.lat] IN
    IF PropertyConflicts(st, in) # {}
    THEN [st EXCEPT !.props[PropertyID(st, in)] = row]
    ELSE [st EXCEPT !.props = Append(@, row)]

\* INSERT INTO ingest_listings ... ON CONFLICT (provider, source_id,
\* listing_id) DO UPDATE: the rows the unique index
\* ux_ingest_listings_provider_ids sets against the insert. A unique index
\* holds NULLs distinct from each other, so a NULL listing_id conflicts with
\* no row.
ListingConflicts(st, in) ==
    {i \in 1..Len(st.lists) :
        /\ in.lid # Null
        /\ st.lists[i].provider = in.provider
        /\ st.lists[i].src = in.src
        /\ st.lists[i].lid = in.lid}

\* ... RETURNING id
ListingID(st, in) ==
    IF ListingConflicts(st, in) # {} THEN CHOOSE i \in ListingConflicts(st, in) : TRUE
    ELSE Len(st.lists) + 1

UpsertListing(st, in, pid) ==
    LET row == [provider |-> in.provider, src |-> in.src, lid |-> in.lid,
                prop |-> pid, price |-> in.price] IN
    IF ListingConflicts(st, in) # {}
    THEN [st EXCEPT !.lists[ListingID(st, in)] = row]
    ELSE [st EXCEPT !.lists = Append(@, row), !.photos = Append(@, <<>>)]

\* INSERT INTO ingest_listing_photo_tags ... ON CONFLICT (photo_id, label) DO
\* NOTHING, for the labels of one photo in turn; empty labels are skipped
RECURSIVE InsertTags(_, _)
InsertTags(rows, labels) ==
    IF labels = <<>> THEN rows
    ELSE LET l == Head(labels) IN
         InsertTags(IF l = "" \/ l \in Range(rows) THEN rows ELSE Append(rows, l),
                    Tail(labels))

\* the loop of replaceListingPhotosTx from the photo at index idx on (idx is
\* 1-based here, the position it stands for 0-based): entries without href
\* are skipped, a negative position becomes the index, and an href the
\* listing already has breaks ux_ingest_listphotos_listing_href
RECURSIVE InsertPhotos(_, _, _)
InsertPhotos(rows, photos, idx) ==
    IF idx > Len(photos) THEN [err |-> "none", rows |-> rows]
    ELSE LET p == photos[idx] IN
         IF p.href = "" THEN InsertPhotos(rows, photos, idx + 1)
         ELSE IF \E r \in Range(rows) : r.href = p.href
         THEN [err |-> "unique", rows |-> rows]
         ELSE InsertPhotos(
                  Append(rows, [href |-> p.href,
                                position |-> IF p.position < 0 THEN idx - 1
                                             ELSE p.position,
                                tags |-> InsertTags(<<>>, p.tags)]),
                  photos, idx + 1)

\* a replaceListingPhotosTx that deletes nothing
DeletePhotosNone(rows) == rows

\* DELETE FROM ingest_listing_photos WHERE listing_id=$1; the tag rows go with
\* the photo rows (ON DELETE CASCADE)
DeletePhotos(rows) == <<>>

\* replaceListingPhotosTx on the listing with id row: the error, if any, and
\* the tables as the transaction sees them afterwards
replaceListingPhotosTx(st, row, photos) ==
    LET r == InsertPhotos(DeletePhotos(st.photos[row]), photos, 1) IN
    [err |-> r.err, st |-> [st EXCEPT !.photos[row] = r.rows]]

\* a snapshot insert that skips a payload whose digest is stored already
InsertSnapshotOnce(st, in) ==
    IF \E i \in 1..Len(st.snaps) : st.snaps[i].sha = Sha256(in.raw) THEN st
    ELSE [st EXCEPT !.snaps = Append(@, [ext |-> in.ext, sha |-> Sha256(in.raw)])]

\* INSERT INTO ingest_provider_raw_snapshots
InsertSnapshot(st, in) ==
    [st EXCEPT !.snaps = Append(@, [ext |-> in.ext, sha |-> Sha256(in.raw)])]

\* a rollback that leaves the statements executed so far in the tables
RollbackPartial(st, work) == work

\* tx.Rollback: the committed tables stay as they are
Rollback(st, work) == st

\* SELECT id FROM ingest_listings WHERE listing_id=$1 ORDER BY updated_at
\* DESC LIMIT 1 of ReplaceListingPhotos: the listing's row, 0 for
\* sql.ErrNoRows. Every listing is written by Hydrator.Write with source_id
\* equal to listing_id and the one provider, so at most one row matches.
LookupListing(st, lid) ==
    LET rows == {i \in 1..Len(st.lists) : st.lists[i].lid = lid /\ lid # Null} IN
    IF lid = "" \/ rows = {} THEN 0 ELSE CHOOSE i \in rows : TRUE

\* no store call in progress; wins counts the WriteSnapshotAndUpsert calls
\* that have returned without error
IdleTx ==
    [pc |-> "idle", op |-> "none", in |-> NoInput, work |-> EmptyStore,
     pre |-> EmptyStore, err |-> "none", row |-> 0, pid |-> 0, wins |-> 0]

\* number of successful writes the store is driven through
MaxWrites == 2

\* a step of the call in progress has failed: the deferred Rollback runs
\* and the call returns the error; what the transaction had done is kept in
\* work for the record
TxFail(e) ==
    /\ tx' = [tx EXCEPT !.pc = "done", !.err = e]
    /\ store' = Rollback(store, tx.work)

\* WriteSnapshotAndUpsert is called with input in: BeginTx
StoreWrite(in, fail) ==
    /\ tx.pc = "idle"
    /\ Len(store.snaps) < MaxWrites
    /\ tx' = IF fail
             THEN [tx EXCEPT !.pc = "done", !.op = "write", !.in = in, !.err = "db",
                             !.work = store, !.pre = store]
             ELSE [tx EXCEPT !.pc = "property", !.op = "write", !.in = in,
                             !.err = "none", !.work = store, !.pre = store]
    /\ store' = store
    /\ UNCHANGED <<redisUp, pub, canon, bulk, limiter, dailyLimit, today, dayKey, dayCount, sent, call>>
    /\ UNCHANGED sysVars

\* the ingest_properties upsert
TxProperty(fail) ==
    /\ tx.pc = "property"
    /\ IF fail THEN TxFail("db")
       ELSE /\ tx' = [tx EXCEPT !.pc = "listing",
                                !.pid = PropertyID(tx.work, tx.in),
                                !.work = UpsertProperty(tx.work, tx.in)]
            /\ store' = store
    /\ UNCHANGED <<redisUp, pub, canon, bulk, limiter, dailyLimit, today, dayKey, dayCount, sent, call>>
    /\ UNCHANGED sysVars

\* the ingest_listings upsert
TxListing(fail) ==
    /\ tx.pc = "listing"
    /\ IF fail THEN TxFail("db")
       ELSE /\ tx' = [tx EXCEPT !.pc = "photos",
                                !.row = ListingID(tx.work, tx.in),
                                !.work = UpsertListing(tx.work, tx.in, tx.pid)]
            /\ store' = store
    /\ UNCHANGED <<redisUp, pub, canon, bulk, limiter, dailyLimit, today, dayKey, dayCount, sent, call>>
    /\ UNCHANGED sysVars

\* replaceListingPhotosTx: in WriteSnapshotAndUpsert only if photos were
\* supplied, and followed there by the snapshot insert
TxPhotos(fail) ==
    LET r == replaceListingPhotosTx(tx.work, tx.row, tx.in.photos)
        next == IF tx.op = "write" THEN "snapshot" ELSE "commit"
    IN
    /\ tx.pc = "photos"
    /\ IF tx.op = "write" /\ Len(tx.in.photos) = 0
       THEN /\ ~fail
            /\ tx' = [tx EXCEPT !.pc = next]
            /\ store' = store
       ELSE IF fail THEN TxFail("db")
       ELSE IF r.err # "none"
       THEN /\ tx' = [tx EXCEPT !.pc = "done", !.err = r.err, !.work = r.st]
            /\ store' = Rollback(store, r.st)
       ELSE /\ tx' = [tx EXCEPT !.pc = next, !.work = r.st]
            /\ store' = store
    /\ UNCHANGED <<redisUp, pub, canon, bulk, limiter, dailyLimit, today, dayKey, dayCount, sent, call>>
    /\ UNCHANGED sysVars

\* the ingest_provider_raw_snapshots insert
TxSnapshot(fail) ==
    /\ tx.pc = "snapshot"
    /\ IF fail THEN TxFail("db")
       ELSE /\ tx' = [tx EXCEPT !.pc = "commit", !.work = InsertSnapshot(tx.work, tx.in)]
            /\ store' = store
    /\ UNCHANGED <<redisUp, pub, canon, bulk, limiter, dailyLimit, today, dayKey, dayCount, sent, call>>
    /\ UNCHANGED sysVars

\* tx.Commit: what the transaction did becomes the committed tables, or the
\* commit fails and nothing of it does
TxCommit(fail) ==
    /\ tx.pc = "commit"
    /\ IF fail THEN TxFail("db")
       ELSE /\ tx' = [tx EXCEPT !.pc = "done",
                                !.wins = IF tx.op = "write" THEN @ + 1 ELSE @]
            /\ store' = tx.work
    /\ UNCHANGED <<redisUp, pub, canon, bulk, limiter, dailyLimit, today, dayKey, dayCount, sent, call>>
    /\ UNCHANGED sysVars

\* the call has returned to its caller
TxReturn ==
    /\ tx.pc = "done"
    /\ tx' = [IdleTx EXCEPT !.wins = tx.wins]
    /\ store' = store
    /\ UNCHANGED <<redisUp, pub, canon, bulk, limiter, dailyLimit, today, dayKey, dayCount, sent, call>>
    /\ UNCHANGED sysVars

\* ReplaceListingPhotos is called for provider listing id lid: the lookup of
\* the listing (nil is returned if there is none), then BeginTx
StoreReplace(lid, photos, fail) ==
    LET row == LookupListing(store, lid)
        in == [NoInput EXCEPT !.lid = lid, !.photos = photos]
        t == [tx EXCEPT !.op = "replace", !.in = in, !.work = store, !.pre = store,
                        !.row = row, !.err = "none"]
    IN
    /\ tx.pc = "idle"
    /\ tx' = IF fail THEN [t EXCEPT !.pc = "done", !.err = "db"]
             ELSE IF row = 0 THEN [t EXCEPT !.pc = "done"]
             ELSE [t EXCEPT !.pc = "photos"]
    /\ store' = store
    /\ UNCHANGED <<redisUp, pub, canon, bulk, limiter, dailyLimit, today, dayKey, dayCount, sent, call>>
    /\ UNCHANGED sysVars

\* WriteSnapshotAndUpsert from BeginTx to Commit when no statement fails but
\* for a constraint: the error and the committed tables afterwards
WriteSnapshotAndUpsert(st, in) ==
    LET s1 == UpsertProperty(st, in)
        s2 == UpsertListing(s1, in, PropertyID(st, in))
        r == IF Len(in.photos) > 0
             THEN replaceListingPhotosTx(s2, ListingID(s1, in), in.photos)
             ELSE [err |-> "none", st |-> s2]
    IN IF r.err # "none" THEN [err |-> r.err, st |-> Rollback(st, r.st)]
       ELSE [err |-> "none", st |-> InsertSnapshot(r.st, in)]

\* ReplaceListingPhotos from the lookup to Commit, likewise
ReplaceListingPhotos(st, lid, photos) ==
    LET row == LookupListing(st, lid)
        r == replaceListingPhotosTx(st, row, photos)
    IN IF row = 0 THEN [err |-> "none", st |-> st]
       ELSE IF r.err # "none" THEN [err |-> r.err, st |-> Rollback(st, r.st)]
       ELSE r

\* The job before main calls Run. seen is the record of the page fetches
\* that have returned, of the pair fetched last: the number of cards of each
\* page, FetchFailed for a fetch or a mapping that failed. outs is what
\* persistCard returned for the cards of the page taken so far, skipped
\* whether it returned an error in this run, card the listing whose photos
\* are being fetched. interval is Config.Interval > 0, tick a tick waiting in
\* the ticker's channel, runs the calls of RunOnce, prev what the run before
\* returned, runRet what Run returned, sigAt where the signal found the job.
IdleBulk(fp) ==
    [pc |-> "idle", pair |-> 0, page |-> 0, n |-> 0, left |-> 0, joined |-> FALSE,
     ret |-> "none", cancelled |-> FALSE, fetchPhotos |-> fp, quota |-> FALSE,
     seen |-> <<>>, outs |-> <<>>, skipped |-> FALSE, card |-> "",
     interval |-> FALSE, tick |-> FALSE, runs |-> 0, prev |-> "none",
     runRet |-> "none", sigAt |-> "none"]

\* buffer size the publisher is built with in the runs (the program: 256)
EventBuffer == 1

\* events.NewInMemory(buffer): make(chan PropertyUpdated, buffer), 256 for
\* a buffer that is not positive
NewInMemory(buffer) == [ch |-> <<>>, cap |-> IF buffer <= 0 THEN 256 ELSE buffer]

InitSys ==
    /\ pub = NewInMemory(EventBuffer)
    /\ redisUp = TRUE
    /\ now = 0
    /\ miss = [k \in Keys |-> 0]
    /\ lock = [k \in Keys |-> 0]
    /\ touch = [k \in JobKeys |-> 0]
    /\ req = [r \in Reqs |-> IdleReq]
    /\ gor = [g \in Gors |-> IdleGor]
    /\ ch = <<>>
    /\ inFly = {}
    /\ worker = [w \in Workers |-> IdleWorker]

InitQuotaWith(limit, l) ==
    /\ limiter = [c \in Clients |-> l]
    /\ dailyLimit = [c \in Clients |-> limit]
    /\ today = 1
    /\ dayKey = [c \in Clients |-> 0]
    /\ dayCount = [c \in Clients |-> 0]
    /\ sent = [c \in Clients |-> [d \in Days |-> 0]]
    /\ call = [p \in Procs |-> IdleCall]

InitQuota(limit) == InitQuotaWith(limit, NoLimiter)

\* The cold path: Redis knows nothing about the key when the server starts.
InitCold ==
    /\ InitQuota(DailyLimit)
    /\ InitSys
    /\ capacity = NewCapacity(QueueCap)
    /\ bulk = IdleBulk(FALSE)
    /\ store = EmptyStore
    /\ tx = IdleTx
    /\ canon = IdleCanon
    /\ env = [k \in Keys |-> NoEnv]

NextCold ==
    \/ \E r \in Reqs, k \in Keys, valid \in BOOLEAN : ResolveStart(r, k, valid)
    \/ \E r \in Reqs : ResolveExists(r)
    \/ \E r \in Reqs : ResolveGet(r)
    \/ \E r \in Reqs : ResolveSetNX(r)
    \/ \E r \in Reqs, pl \in Payloads, pw \in Persists : ResolveFetched(r, pl, pw)
    \/ \E r \in Reqs : ResolveReturn(r)
    \/ \E p \in Reqs : BeforeRequestReadDay(p)
    \/ \E p \in Reqs : BeforeRequestGate(p)
    \/ \E p \in Reqs, o \in SysOutcomes : Respond(p, o)
    \/ Tick

SpecCold == InitCold /\ [][NextCold]_vars

\* the Redis server stops answering, or answers again
RedisFail ==
    /\ redisUp
    /\ redisUp' = FALSE
    /\ UNCHANGED <<pub, store, tx, canon, bulk, limiter, dailyLimit, today, dayKey, dayCount, sent, call>>
    /\ UNCHANGED sysVars

RedisRecover ==
    /\ ~redisUp
    /\ redisUp' = TRUE
    /\ UNCHANGED <<pub, store, tx, canon, bulk, limiter, dailyLimit, today, dayKey, dayCount, sent, call>>
    /\ UNCHANGED sysVars

\* The cold path with a Redis server that may be unreachable at any time.
NextOutage ==
    \/ \E r \in Reqs, k \in Keys, valid \in BOOLEAN : ResolveStart(r, k, valid)
    \/ \E r \in Reqs : ResolveExists(r)
    \/ \E r \in Reqs : ResolveGet(r)
    \/ \E r \in Reqs : ResolveSetNX(r)
    \/ \E r \in Reqs, pl \in Payloads, pw \in Persists : ResolveFetched(r, pl, pw)
    \/ \E r \in Reqs : ResolveReturn(r)
    \/ \E p \in Reqs : BeforeRequestReadDay(p)
    \/ \E p \in Reqs : BeforeRequestGate(p)
    \/ \E p \in Reqs, o \in SysOutcomes : Respond(p, o)
    \/ Tick
    \/ RedisFail
    \/ RedisRecover

SpecOutage == InitCold /\ [][NextOutage]_vars

\* The stale-while-revalidate path: Redis outlives the server and holds an
\* envelope written 5 minutes before the start, at the edge of staleness.
InitSWR ==
    /\ InitQuota(SWRLimit)
    /\ InitSys
    /\ capacity = NewCapacity(QueueCap)
    /\ bulk = IdleBulk(FALSE)
    /\ store = EmptyStore
    /\ tx = IdleTx
    /\ canon = IdleCanon
    /\ env = [k \in Keys |-> ResolveEnvelope(0 - StaleAfterDur, "a")]

NextSWR ==
    \/ \E r \in Reqs, k \in Keys, valid \in BOOLEAN : ResolveStart(r, k, valid)
    \/ \E r \in Reqs : ResolveExists(r)
    \/ \E r \in Reqs : ResolveGet(r)
    \/ \E r \in Reqs, g \in Gors : ResolveRefetch(r, g)
    \/ \E r \in Reqs : ResolveSend(r)
    \/ \E r \in Reqs : ResolveReturn(r)
    \/ \E g \in Gors : GorStart(g)
    \/ \E g \in Gors : GorTimeout(g)
    \/ \E g \in Gors, pl \in Payloads : GorFetched(g, pl)
    \/ \E w \in Workers : WorkerTake(w)
    \/ \E w \in Workers : WorkerDo(w)
    \/ \E w \in Workers : WorkerDefer(w)
    \/ \E p \in Gors : BeforeRequestReadDay(p)
    \/ \E p \in Gors : BeforeRequestGate(p)
    \/ \E p \in Gors, o \in SysOutcomes : Respond(p, o)
    \/ Tick

SpecSWR == InitSWR /\ [][NextSWR]_vars

\* One stale-hit resolve at a time whose context may be cancelled at any
\* point, with the refresh it triggers.
DetachReqs == {"r1"}
DetachGors == {"g1"}

NextDetach ==
    \/ \E r \in DetachReqs, k \in Keys, valid \in BOOLEAN : ResolveStart(r, k, valid)
    \/ \E r \in DetachReqs : ResolveExists(r)
    \/ \E r \in DetachReqs : ResolveGet(r)
    \/ \E r \in DetachReqs, g \in DetachGors : ResolveRefetch(r, g)
    \/ \E r \in DetachReqs : ResolveSend(r)
    \/ \E r \in DetachReqs : ResolveSetNX(r)
    \/ \E r \in DetachReqs : ResolveReturn(r)
    \/ \E r \in DetachReqs : Cancel(r)
    \/ \E g \in DetachGors : GorStart(g)
    \/ \E g \in DetachGors : GorTimeout(g)
    \/ \E g \in DetachGors, pl \in Payloads : GorFetched(g, pl)
    \/ \E w \in Workers : WorkerTake(w)
    \/ \E w \in Workers : WorkerDo(w)
    \/ \E w \in Workers : WorkerDefer(w)
    \/ \E p \in DetachGors : BeforeRequestReadDay(p)
    \/ \E p \in DetachGors : BeforeRequestGate(p)
    \/ \E p \in DetachGors, o \in SysOutcomes : Respond(p, o)
    \/ Tick

SpecDetach == InitSWR /\ [][NextDetach]_vars

\* The Refresher alone: goroutines calling Enqueue with any job key, the two
\* workers, and a queue of small capacity.
EnqueueCall(r, k) ==
    /\ req[r].pc = "idle"
    /\ req' = [req EXCEPT ![r] = [IdleReq EXCEPT !.pc = "enqueue", !.key = k]]
    /\ UNCHANGED <<redisUp, pub, store, tx, canon, bulk, limiter, dailyLimit, today, dayKey, dayCount, sent, call, now, gor>>
    /\ UNCHANGED <<redisVars, refVars>>

\* Enqueue, first step: inFly.LoadOrStore; return if the key was there
EnqueueLoadOrStore(r) ==
    LET k == req[r].key IN
    /\ req[r].pc = "enqueue"
    /\ IF LoadOrStoreExists(k)
       THEN /\ req' = [req EXCEPT ![r].pc = "done", ![r].enq = "dup"]
            /\ inFly' = inFly
       ELSE /\ req' = [req EXCEPT ![r].pc = "send"]
            /\ inFly' = LoadOrStoreStored(k)
    /\ UNCHANGED <<redisUp, pub, store, tx, canon, bulk, limiter, dailyLimit, today, dayKey, dayCount, sent, call, now, gor>>
    /\ UNCHANGED <<redisVars, ch, worker, capacity>>

\* Enqueue, second step: the select; send, or drop and un-mark
EnqueueSend(r) ==
    LET k == req[r].key IN
    /\ req[r].pc = "send"
    /\ IF ~Saturated
       THEN /\ ch' = Append(ch, k)
            /\ inFly' = inFly
            /\ req' = [req EXCEPT ![r].pc = "done", ![r].enq = "sent"]
       ELSE /\ ch' = ch
            /\ inFly' = AfterDrop(k)
            /\ req' = [req EXCEPT ![r].pc = "done", ![r].enq = "dropped"]
    /\ UNCHANGED <<redisUp, pub, store, tx, canon, bulk, limiter, dailyLimit, today, dayKey, dayCount, sent, call, now, gor>>
    /\ UNCHANGED <<redisVars, worker, capacity>>

\* Enqueue has returned to its caller
EnqueueReturn(r) ==
    /\ req[r].pc = "done"
    /\ req' = [req EXCEPT ![r] = IdleReq]
    /\ UNCHANGED <<redisUp, pub, store, tx, canon, bulk, limiter, dailyLimit, today, dayKey, dayCount, sent, call, now, gor>>
    /\ UNCHANGED <<redisVars, refVars>>

InitRefresher ==
    /\ InitQuota(DailyLimit)
    /\ InitSys
    /\ capacity = NewCapacity(SmallCap)
    /\ bulk = IdleBulk(FALSE)
    /\ store = EmptyStore
    /\ tx = IdleTx
    /\ canon = IdleCanon
    /\ env = [k \in Keys |-> NoEnv]

NextRefresher ==
    \/ \E r \in Reqs, k \in JobKeys : EnqueueCall(r, k)
    \/ \E r \in Reqs : EnqueueLoadOrStore(r)
    \/ \E r \in Reqs : EnqueueSend(r)
    \/ \E r \in Reqs : EnqueueReturn(r)
    \/ \E w \in Workers : WorkerTake(w)
    \/ \E w \in Workers : WorkerDo(w)
    \/ \E w \in Workers : WorkerDoFail(w)
    \/ \E w \in Workers : WorkerDefer(w)

SpecRefresher == InitRefresher /\ [][NextRefresher]_vars

\* The Refresher with its goroutines scheduled fairly: a worker that can
\* take a job, whose action can return, or whose deferred function can run
\* does so, and a caller inside Enqueue goes on to the end of it.
FairRefresher ==
    /\ \A w \in Workers : WF_vars(WorkerTake(w))
    /\ \A w \in Workers : WF_vars(WorkerDo(w) \/ WorkerDoFail(w))
    /\ \A w \in Workers : WF_vars(WorkerDefer(w))
    /\ \A r \in Reqs : WF_vars(EnqueueLoadOrStore(r))
    /\ \A r \in Reqs : WF_vars(EnqueueSend(r))

SpecRefresherFair == SpecRefresher /\ FairRefresher

\* Canonicalize alone: a caller with any raw address canonicalizes it and
\* then canonicalizes the result.
InitCanon ==
    /\ InitQuota(DailyLimit)
    /\ InitSys
    /\ capacity = NewCapacity(QueueCap)
    /\ bulk = IdleBulk(FALSE)
    /\ env = [k \in Keys |-> NoEnv]
    /\ store = EmptyStore
    /\ tx = IdleTx
    /\ \E l \in RawLines, c \in RawCities, s \in RawStates, z \in RawZips :
          canon = CanonInput(l, c, s, z)

NextCanon ==
    \/ CanonOnce
    \/ CanonTwice

SpecCanon == InitCanon /\ [][NextCanon]_vars

\* the lines without a unit: "123 Main Street", "12 Elm Rd"
BaseLines ==
    {<<"1", "2", "3", " ", "M", "a", "i", "n", " ", "S", "t", "r", "e", "e", "t">>,
     <<"1", "2", " ", "E", "l", "m", " ", "R", "d">>}

\* unit suffixes, the designator in several casings and with punctuation
\* around it: ", Apt 4B", " apt 4b", " UNIT 2", " Ste 5", ", Suite 5",
\* " #4", " Apt. 4B", ",Apt 4B", " - Unit 2", ",#4"
UnitSuffixes ==
    {<<",", " ", "A", "p", "t", " ", "4", "B">>,
     <<" ", "a", "p", "t", " ", "4", "b">>,
     <<" ", "U", "N", "I", "T", " ", "2">>,
     <<" ", "S", "t", "e", " ", "5">>,
     <<",", " ", "S", "u", "i", "t", "e", " ", "5">>,
     <<" ", "#", "4">>,
     <<" ", "A", "p", "t", ".", " ", "4", "B">>,
     <<",", "A", "p", "t", " ", "4", "B">>,
     <<" ", "-", " ", "U", "n", "i", "t", " ", "2">>,
     <<",", "#", "4">>}

\* Canonicalize on pairs: a caller canonicalizes an address with a unit
\* suffix on its line and the same address without it.
InitUnit ==
    /\ InitQuota(DailyLimit)
    /\ InitSys
    /\ capacity = NewCapacity(QueueCap)
    /\ bulk = IdleBulk(FALSE)
    /\ env = [k \in Keys |-> NoEnv]
    /\ store = EmptyStore
    /\ tx = IdleTx
    /\ \E l \in BaseLines, u \in UnitSuffixes, c \in RawCities, s \in RawStates,
          z \in RawZips :
          canon = [CanonInput(l \o u, c, s, z) EXCEPT !.base = l]

NextUnit ==
    \/ CanonOnce
    \/ CanonBare

SpecUnit == InitUnit /\ [][NextUnit]_vars

\* The store alone: one caller at a time writing cards and replacing photo
\* sets, any statement of a call failing.
CardIDs == {"", "l1"}
PropKeys == {"k1", "k2"}
Contents == {1, 2}
ReplaceIDs == {"l1", "l2"}

\* the payload a card with contents v comes out of
Payload(v) == <<"payload", v>>

\* store.ListingPhotoInput
Photo(h, pos, tags) == [href |-> h, position |-> pos, tags |-> tags]

\* the photo sets handed to the store: none; one photo with a label given
\* twice; an entry without href and a photo with an empty label; the same
\* href twice; two photos without explicit positions
PhotoInputs ==
    {<<>>,
     <<Photo("a", 0, <<"t", "t">>)>>,
     <<Photo("", 0, <<>>), Photo("b", 1, <<"", "t">>)>>,
     <<Photo("a", 0, <<>>), Photo("a", 1, <<>>)>>,
     <<Photo("b", 0 - 1, <<"t">>), Photo("a", 0 - 1, <<"u">>)>>}

InitStore ==
    /\ InitQuota(DailyLimit)
    /\ InitSys
    /\ capacity = NewCapacity(QueueCap)
    /\ bulk = IdleBulk(FALSE)
    /\ env = [k \in Keys |-> NoEnv]
    /\ canon = IdleCanon
    /\ store = EmptyStore
    /\ tx = IdleTx

NextStore ==
    \/ \E id \in CardIDs, k \in PropKeys, v \in Contents, ph \in PhotoInputs,
          fail \in BOOLEAN : StoreWrite(UpsertInput(id, k, v, ph, Payload(v)), fail)
    \/ \E lid \in ReplaceIDs, ph \in PhotoInputs, fail \in BOOLEAN :
          StoreReplace(lid, ph, fail)
    \/ \E fail \in BOOLEAN : TxProperty(fail)
    \/ \E fail \in BOOLEAN : TxListing(fail)
    \/ \E fail \in BOOLEAN : TxPhotos(fail)
    \/ \E fail \in BOOLEAN : TxSnapshot(fail)
    \/ \E fail \in BOOLEAN : TxCommit(fail)
    \/ TxReturn

SpecStore == InitStore /\ [][NextStore]_vars

\* a publisher whose send has no default case and no bound
PublishAlwaysSend(p, evt) == [p EXCEPT !.ch = Append(@, evt)]

\* inMemory.PublishPropertyUpdated: select { case m.ch <- evt: default: }
PublishPropertyUpdated(p, evt) ==
    IF Len(p.ch) < p.cap THEN [p EXCEPT !.ch = Append(@, evt)] ELSE p

\* events.PropertyUpdated{PropertyID: res.PropertyID, PropertyKey: ...}
PropertyUpdated(pid, key) == [pid |-> pid, key |-> key]

\* Hydrator.Write after Store.WriteSnapshotAndUpsert has returned: the error
\* is returned, or the event is published and nil is returned
HydratorReturn ==
    /\ tx.pc = "done"
    /\ tx.op = "write"
    /\ pub' = IF tx.err # "none" THEN pub
              ELSE PublishPropertyUpdated(pub, PropertyUpdated(tx.pid, tx.in.key))
    /\ tx' = [IdleTx EXCEPT !.wins = tx.wins]
    /\ UNCHANGED <<redisUp, store, canon, bulk, limiter, dailyLimit, today, dayKey, dayCount, sent, call>>
    /\ UNCHANGED sysVars

\* Indexer.Run takes an event off the channel
IndexerReceive ==
    /\ Len(pub.ch) > 0
    /\ pub' = [pub EXCEPT !.ch = Tail(@)]
    /\ UNCHANGED <<redisUp, store, tx, canon, bulk, limiter, dailyLimit, today, dayKey, dayCount, sent, call>>
    /\ UNCHANGED sysVars

\* Hydrator.Write driven with cards, the store failing where it can, and
\* the indexer consuming or not
NextHydrator ==
    \/ \E id \in CardIDs, k \in PropKeys, v \in Contents, ph \in PhotoInputs,
          fail \in BOOLEAN : StoreWrite(UpsertInput(id, k, v, ph, Payload(v)), fail)
    \/ \E fail \in BOOLEAN : TxProperty(fail)
    \/ \E fail \in BOOLEAN : TxListing(fail)
    \/ \E fail \in BOOLEAN : TxPhotos(fail)
    \/ \E fail \in BOOLEAN : TxSnapshot(fail)
    \/ \E fail \in BOOLEAN : TxCommit(fail)
    \/ HydratorReturn
    \/ IndexerReceive

SpecHydrator == InitStore /\ [][NextHydrator]_vars

\* ------------------------------------------------------------------------
\* The bulk job of the hydrator command
\* ------------------------------------------------------------------------

\* RunOnce moves on to the next (zip, propertyType) pair, or returns the
\* joined errors after the last one
NextPair(b) ==
    IF b.pair < PairCount
    THEN [b EXCEPT !.pc = "page", !.pair = b.pair + 1, !.page = 1, !.n = 0, !.left = 0]
    ELSE [b EXCEPT !.pc = "done", !.n = 0, !.left = 0,
                   !.ret = IF b.joined THEN "joined" ELSE "nil"]

\* a RunOnce that joins a quota error like any other and goes on
RunOnceOnErrorJoinAll(b, e) ==
    IF b.cancelled THEN [b EXCEPT !.pc = "done", !.ret = "ctx"]
    ELSE NextPair([b EXCEPT !.joined = TRUE])

\* a RunOnce that returns the first error of an ingestZip
RunOnceOnErrorAbort(b, e) ==
    IF b.cancelled THEN [b EXCEPT !.pc = "done", !.ret = "ctx"]
    ELSE IF e = "quota" THEN [b EXCEPT !.pc = "done", !.ret = "quota"]
    ELSE [b EXCEPT !.pc = "done", !.joined = TRUE, !.ret = "joined"]

\* RunOnce when ingestZip returned error e: the context's error if the
\* context is done, the quota error as it is, any other error joined
RunOnceOnError(b, e) ==
    IF b.cancelled THEN [b EXCEPT !.pc = "done", !.ret = "ctx"]
    ELSE IF e = "quota" THEN [b EXCEPT !.pc = "done", !.ret = "quota"]
    ELSE NextPair([b EXCEPT !.joined = TRUE])

\* the runs one Run may make in the model
MaxRuns == 2

\* a call of RunOnce: its locals start afresh; prev keeps what the run
\* before returned
StartRunOnce(b) ==
    [b EXCEPT !.pc = "page", !.pair = 1, !.page = 1, !.n = 0, !.left = 0,
              !.joined = FALSE, !.ret = "none", !.quota = FALSE, !.seen = <<>>,
              !.outs = <<>>, !.skipped = FALSE, !.card = "",
              !.prev = b.ret, !.runs = b.runs + 1]

\* main calls Run, which validates the job (main has seen to the zips, the
\* client and the hydrator), creates the ticker if an interval is
\* configured, and calls RunOnce
BulkStart ==
    /\ bulk.pc = "idle"
    /\ bulk' = StartRunOnce(bulk)
    /\ UNCHANGED <<redisUp, pub, store, tx, canon, limiter, dailyLimit, today, dayKey, dayCount, sent, call>>
    /\ UNCHANGED sysVars

\* a loop head that never sees the context done
CtxDoneNever(b) == FALSE

\* ctx.Err() != nil at a loop head of ingestZip
CtxDone(b) == b.cancelled

\* ingestZip, head of the page loop: stop on a done context, else start
\* SearchListingsByPostal under a request context
BulkPage(b) ==
    /\ bulk.pc = "page"
    /\ IF CtxDone(bulk)
       THEN /\ bulk' = RunOnceOnError(bulk, "ctx")
            /\ call' = call
       ELSE /\ bulk' = [bulk EXCEPT !.pc = "fetching",
                                    !.seen = IF bulk.page = 1 THEN <<>> ELSE @]
            /\ call' = [call EXCEPT ![b] = StartCall(now)]
    /\ UNCHANGED <<redisUp, pub, store, tx, canon, limiter, dailyLimit, today, dayKey, dayCount, sent>>
    /\ UNCHANGED sysVars

\* what seen holds for a page whose fetch or mapping failed
FetchFailed == 0 - 1

\* the page in flight has returned x
Seen(b, x) == [b EXCEPT !.seen = Append(@, x)]

\* an ingestZip that takes no page for the last one
LastPageNever(n) == FALSE

\* ingestZip's last-page heuristic: the page held fewer cards than pageSize
LastPage(n) == n < BulkPageSize

\* ingestZip once the page fetch has returned: n cards were mapped, or the
\* payload could not be mapped
BulkFetched(b, n, mapok) ==
    /\ bulk.pc = "fetching"
    /\ call[b].pc = "done"
    /\ call[b].result = "ok" \/ (n = 0 /\ mapok)
    /\ mapok \/ n = 0
    /\ bulk' = IF call[b].result = "quota"
                   THEN RunOnceOnError(Seen([bulk EXCEPT !.quota = TRUE], FetchFailed),
                                       "quota")
               ELSE IF call[b].result # "ok" \/ ~mapok
                   THEN RunOnceOnError(Seen(bulk, FetchFailed), "error")
               ELSE IF n = 0 THEN NextPair(Seen(bulk, 0))
               ELSE [Seen(bulk, n) EXCEPT !.pc = "card", !.n = n, !.left = n,
                                          !.outs = <<>>]
    /\ call' = [call EXCEPT ![b] = IdleCall]
    /\ UNCHANGED <<redisUp, pub, store, tx, canon, limiter, dailyLimit, today, dayKey, dayCount, sent>>
    /\ UNCHANGED sysVars

\* ingestZip, head of the card loop: stop on a done context, else call
\* persistCard for the next card of the page
BulkCard(b) ==
    /\ bulk.pc = "card"
    /\ bulk.left > 0
    /\ bulk' = IF CtxDone(bulk) THEN RunOnceOnError(bulk, "ctx")
               ELSE [bulk EXCEPT !.pc = "persist"]
    /\ UNCHANGED <<redisUp, pub, store, tx, canon, limiter, dailyLimit, today, dayKey, dayCount, sent, call>>
    /\ UNCHANGED sysVars

\* an ingestZip that gives up the page on a card that could not be persisted
OnPersistErrorAbort(b) == RunOnceOnError([b EXCEPT !.skipped = TRUE], "error")

\* ingestZip when persistCard returned an error that is not the quota
\* error: it is logged and the loop takes the next card
OnPersistError(b) ==
    [b EXCEPT !.pc = "card", !.left = @ - 1, !.outs = Append(@, "err"),
              !.skipped = TRUE]

\* ingestZip when persistCard returned nil: fetched++ and the next card
OnPersisted(b) ==
    [b EXCEPT !.pc = "card", !.left = @ - 1, !.outs = Append(@, "ok")]

\* the cards of a page: their IDs (a card may come without one), and their
\* inline images, here always none, so that the photos of a listing change
\* through the job's photo fetch alone
BulkCardIDs == {"", "l1"}
BulkImages == {<<>>}

\* the assets GetPhotos returns: none, or an entry without href followed by
\* a photo
BulkAssets == {<<>>, <<"", "b">>}

\* the property key Canonicalize gives the address of the card with this ID
KeyOf(id) == IF id = "" THEN "k2" ELSE "k1"

\* persistCard's inputs for ReplaceListingPhotos: the assets with an href,
\* each at the position it has among the assets
RECURSIVE AssetInputs(_, _)
AssetInputs(assets, idx) ==
    IF idx > Len(assets) THEN <<>>
    ELSE IF assets[idx] = "" THEN AssetInputs(assets, idx + 1)
    ELSE <<[href |-> assets[idx], position |-> idx - 1, tags |-> <<>>]>>
         \o AssetInputs(assets, idx + 1)

\* persistCard up to the photo fetch, for the card with the given ID and
\* images: pw = "err" is an incomplete address, an empty key or a failed
\* Hydrator.Write, all of which leave the store as it was; a write that
\* succeeded is followed by the event (the hydrator command starts no
\* subscriber, so its channel only fills). After the write
\* GetPhotos is called if FetchPhotos is set and the card has an ID.
BulkPersisted(b, id, images, pw) ==
    LET in == UpsertInput(id, KeyOf(id), 1, images, <<"payload", 1>>)
        r == IF pw = "ok" THEN WriteSnapshotAndUpsert(store, in)
             ELSE [err |-> "fail", st |-> store]
    IN
    /\ bulk.pc = "persist"
    /\ store' = r.st
    /\ pub' = IF r.err # "none" THEN pub
              ELSE PublishPropertyUpdated(pub, PropertyUpdated(PropertyID(store, in), in.key))
    /\ IF r.err # "none"
       THEN /\ bulk' = OnPersistError(bulk)
            /\ call' = call
       ELSE IF ~bulk.fetchPhotos \/ id = ""
       THEN /\ bulk' = OnPersisted(bulk)
            /\ call' = call
       ELSE /\ bulk' = [bulk EXCEPT !.pc = "photos", !.card = id]
            /\ call' = [call EXCEPT ![b] = StartCall(now)]
    /\ UNCHANGED <<redisUp, tx, canon, limiter, dailyLimit, today, dayKey, dayCount, sent>>
    /\ UNCHANGED sysVars

\* persistCard once GetPhotos has returned: a quota error goes up to
\* RunOnce, any other error is logged and the next card is taken; assets
\* replace the stored photos of the listing (pw = "err": the store call
\* failed and rolled back)
BulkPhotos(b, assets, pw) ==
    LET inputs == AssetInputs(assets, 1)
        r == IF pw = "ok" THEN ReplaceListingPhotos(store, bulk.card, inputs)
             ELSE [err |-> "fail", st |-> store]
    IN
    /\ bulk.pc = "photos"
    /\ call[b].pc = "done"
    /\ call[b].result = "ok" \/ (assets = <<>> /\ pw = "ok")
    /\ IF call[b].result = "quota"
       THEN /\ bulk' = RunOnceOnError([bulk EXCEPT !.quota = TRUE], "quota")
            /\ store' = store
       ELSE IF call[b].result # "ok"
       THEN /\ bulk' = OnPersistError(bulk)
            /\ store' = store
       ELSE IF Len(inputs) = 0
       THEN /\ pw = "ok"
            /\ bulk' = OnPersisted(bulk)
            /\ store' = store
       ELSE /\ bulk' = IF r.err # "none" THEN OnPersistError(bulk)
                       ELSE OnPersisted(bulk)
            /\ store' = r.st
    /\ call' = [call EXCEPT ![b] = IdleCall]
    /\ UNCHANGED <<redisUp, pub, tx, canon, limiter, dailyLimit, today, dayKey, dayCount, sent>>
    /\ UNCHANGED sysVars

\* ingestZip after the last card of a page: a short page ends the pair,
\* a full one is followed by the pause
BulkPageEnd ==
    /\ bulk.pc = "card"
    /\ bulk.left = 0
    /\ bulk' = IF LastPage(bulk.n) THEN NextPair(bulk)
               ELSE [bulk EXCEPT !.pc = "pause"]
    /\ UNCHANGED <<redisUp, pub, store, tx, canon, limiter, dailyLimit, today, dayKey, dayCount, sent, call>>
    /\ UNCHANGED sysVars

\* the select of the pause: the context is done, or the pause is over and
\* the loop goes to the next page, up to MaxPagesPerZip
BulkPause(viaCtx) ==
    /\ bulk.pc = "pause"
    /\ viaCtx => bulk.cancelled
    /\ bulk' = IF viaCtx THEN RunOnceOnError(bulk, "ctx")
               ELSE IF bulk.page + 1 > BulkMaxPages THEN NextPair(bulk)
               ELSE [bulk EXCEPT !.pc = "page", !.page = @ + 1, !.n = 0]
    /\ UNCHANGED <<redisUp, pub, store, tx, canon, limiter, dailyLimit, today, dayKey, dayCount, sent, call>>
    /\ UNCHANGED sysVars

\* SIGINT / SIGTERM while Run is running: rootCtx is cancelled; sigAt keeps
\* where the job was
BulkSignal ==
    /\ bulk.pc \notin {"idle", "returned"}
    /\ ~bulk.cancelled
    /\ bulk' = [bulk EXCEPT !.cancelled = TRUE, !.sigAt = bulk.pc]
    /\ UNCHANGED <<redisUp, pub, store, tx, canon, limiter, dailyLimit, today, dayKey, dayCount, sent, call>>
    /\ UNCHANGED sysVars

\* the request context of the call in flight is done: its timeout passed or
\* rootCtx was cancelled
BulkReqCtxDone(b) ==
    /\ bulk.pc \in {"fetching", "photos"}
    /\ call[b].pc \in {"wait", "net"}
    /\ call' = [call EXCEPT ![b] = AfterAttempt(call[b], "ctx", now)]
    /\ UNCHANGED <<redisUp, pub, store, tx, canon, bulk, limiter, dailyLimit, today, dayKey, dayCount, sent>>
    /\ UNCHANGED sysVars

\* Run's ticker fires: the tick waits in ticker.C, which holds one tick and
\* drops the ticks that find it full
BulkTick ==
    /\ bulk.interval
    /\ bulk.pc \notin {"idle", "returned"}
    /\ ~bulk.tick
    /\ bulk' = [bulk EXCEPT !.tick = TRUE]
    /\ UNCHANGED <<redisUp, pub, store, tx, canon, limiter, dailyLimit, today, dayKey, dayCount, sent, call>>
    /\ UNCHANGED sysVars

\* Run's select takes the tick, the run before having returned: the next
\* RunOnce, whatever the run before returned
BulkSelectTick ==
    /\ bulk.pc = "done"
    /\ bulk.interval
    /\ bulk.tick
    /\ bulk.runs < MaxRuns
    /\ bulk' = StartRunOnce([bulk EXCEPT !.tick = FALSE])
    /\ UNCHANGED <<redisUp, pub, store, tx, canon, limiter, dailyLimit, today, dayKey, dayCount, sent, call>>
    /\ UNCHANGED sysVars

\* a Run whose loop also ends when an iteration returned an error
LoopEndsOnError(b) ==
    IF b.interval THEN b.cancelled \/ b.ret \notin {"nil", "ctx"} ELSE TRUE

\* Run returns once RunOnce has: at once without an interval, and with one
\* when its select finds the context done
LoopEnds(b) == IF b.interval THEN b.cancelled ELSE TRUE

\* what Run returns: RunOnce's result without an interval, nil for a
\* cancelled context with one
RunResult(b) == IF b.interval THEN "nil" ELSE b.ret

\* main: log.Fatalf unless Run returned nil or context.Canceled
MainFatal(r) == r \notin {"nil", "ctx"}

\* Run returns to main
BulkReturn ==
    /\ bulk.pc = "done"
    /\ LoopEnds(bulk)
    /\ bulk' = [bulk EXCEPT !.pc = "returned", !.runRet = RunResult(bulk)]
    /\ UNCHANGED <<redisUp, pub, store, tx, canon, limiter, dailyLimit, today, dayKey, dayCount, sent, call>>
    /\ UNCHANGED sysVars

\* the database the job finds: empty, or holding listing l1 with a photo
\* from an earlier process
BulkStores ==
    {EmptyStore,
     WriteSnapshotAndUpsert(
         EmptyStore,
         UpsertInput("l1", "k1", 1, <<[href |-> "a", position |-> 0, tags |-> <<>>]>>,
                     <<"payload", 1>>)).st}

InitBulk ==
    /\ InitQuota(DailyLimit)
    /\ InitSys
    /\ capacity = NewCapacity(QueueCap)
    /\ env = [k \in Keys |-> NoEnv]
    /\ \E fp \in BOOLEAN, iv \in BOOLEAN :
          bulk = [IdleBulk(fp) EXCEPT !.interval = iv]
    /\ store \in BulkStores
    /\ tx = IdleTx
    /\ canon = IdleCanon

NextBulk ==
    \/ BulkStart
    \/ \E b \in Bulks : BulkPage(b)
    \/ \E b \in Bulks, n \in 0..BulkPageSize, mapok \in BOOLEAN : BulkFetched(b, n, mapok)
    \/ \E b \in Bulks : BulkCard(b)
    \/ \E b \in Bulks, id \in BulkCardIDs, images \in BulkImages, pw \in {"ok", "err"} :
          BulkPersisted(b, id, images, pw)
    \/ \E b \in Bulks, assets \in BulkAssets, pw \in {"ok", "err"} :
          BulkPhotos(b, assets, pw)
    \/ BulkPageEnd
    \/ \E viaCtx \in BOOLEAN : BulkPause(viaCtx)
    \/ BulkSignal
    \/ \E b \in Bulks : BulkReqCtxDone(b)
    \/ BulkTick
    \/ BulkSelectTick
    \/ BulkReturn
    \/ \E p \in Bulks : BeforeRequestReadDay(p)
    \/ \E p \in Bulks : BeforeRequestGate(p)
    \/ \E p \in Bulks, o \in SysOutcomes : Respond(p, o)

SpecBulk == InitBulk /\ [][NextBulk]_vars

\* The client alone, driven by its call sites across UTC days.
InitClient == InitCold

NextClient ==
    \/ \E p \in Callers : Invoke(p)
    \/ \E p \in Callers : BeforeRequestReadDay(p)
    \/ \E p \in Callers : BeforeRequestGate(p)
    \/ \E p \in Callers, o \in Outcomes : Respond(p, o)
    \/ \E p \in Callers : Return(p)
    \/ NextDay

SpecClient == InitClient /\ [][NextClient]_vars

\* The client as NewClient builds it, with its limiter, on one UTC day; the
\* provider answers 200 or 500.
InitLimiter ==
    /\ InitQuotaWith(DailyLimit, NewLimiter(RateBurst))
    /\ InitSys
    /\ capacity = NewCapacity(QueueCap)
    /\ bulk = IdleBulk(FALSE)
    /\ store = EmptyStore
    /\ tx = IdleTx
    /\ canon = IdleCanon
    /\ env = [k \in Keys |-> NoEnv]

NextLimiter ==
    \/ \E p \in Callers : Invoke(p)
    \/ \E p \in Callers : BeforeRequestReadDay(p)
    \/ \E p \in Callers : BeforeRequestGate(p)
    \/ \E p \in Callers, o \in {"200", "500"} : Respond(p, o)
    \/ \E p \in Callers, byCaller \in BOOLEAN : LimiterWaitError(p, byCaller)
    \/ \E p \in Callers : Return(p)
    \/ Refill("server")

SpecLimiter == InitLimiter /\ [][NextLimiter]_vars

\* Both processes on one UTC day, the provider answering every attempt 200.
NextBudget ==
    \/ \E p \in BudgetCallers : Invoke(p)
    \/ \E p \in BudgetCallers : BeforeRequestReadDay(p)
    \/ \E p \in BudgetCallers : BeforeRequestGate(p)
    \/ \E p \in BudgetCallers : Respond(p, "200")
    \/ \E p \in BudgetCallers : Return(p)

SpecBudget == InitClient /\ [][NextBudget]_vars

\* ------------------------------------------------------------------------
\* Claims about the quota-gated client
\* ------------------------------------------------------------------------

\* C4: with a positive daily limit, dayCount never exceeds dailyLimit and the
\* number of network attempts sent by a client in one UTC day never exceeds
\* dailyLimit, for any number of concurrent callers.
C4_DailyBudget ==
    \A c \in Clients :
        /\ dayCount[c] <= dailyLimit[c]
        /\ \A d \in Days : sent[c][d] <= dailyLimit[c]

\* C5: the daily budget is global: the network attempts of resolves,
\* refreshes and the bulk pipeline together never exceed dailyLimit in one
\* UTC day.
C5_GlobalBudget ==
    \A d \in Days : sent["server"][d] + sent["hydrator"][d] <= dailyLimit["server"]

\* C6: a 429 response is never retried: the call ends with that attempt and
\* returns ErrDailyLimitExceeded.
C6_No429Retry ==
    \A p \in Procs :
        call[p].resp = "429" => (call[p].pc = "done" /\ call[p].result = "quota")

\* C7: a gate check whose day key differs from the stored one resets the
\* counter before the limit check: the call is admitted and is the first one
\* counted on the new day key, whatever the previous count was.
C7_DayReset ==
    [][\A p \in Procs :
          (call[p].pc = "gate" /\ call'[p].pc # "gate"
             /\ dayKey[ClientOf(p)] # call[p].dayRead)
          => (/\ call'[p].pc = "net"
              /\ dayCount'[ClientOf(p)] = 1
              /\ dayKey'[ClientOf(p)] = call[p].dayRead)]_vars

\* C7 witness: the previous day's budget was used up and the first call of
\* the new day is on the wire.
C7_Witness ==
    \E p \in Procs :
        /\ call[p].pc = "net"
        /\ today = 2
        /\ sent[ClientOf(p)][1] = dailyLimit[ClientOf(p)]
        /\ sent[ClientOf(p)][2] = 1
        /\ dayKey[ClientOf(p)] = 2
        /\ dayCount[ClientOf(p)] = 1

\* C8: per call at most RetryMax + 1 = 4 attempts; a 2xx or non-429 4xx
\* response is never followed by another attempt (2xx gives the body, 4xx an
\* upstream error); a transport error or a 5xx that ends the call was retried
\* to the cap and is surfaced as an error; a quota refusal of the gate ends
\* the call at once with ErrDailyLimitExceeded.
C8_BoundedRetry ==
    \A p \in Procs :
        /\ call[p].i + 1 <= 4
        /\ (call[p].pc # "done" /\ call[p].i > 0)
               => call[p].resp \in {"neterr", "500", "429"}
        /\ (call[p].pc # "done" /\ call[p].i = 0) => call[p].resp = "none"
        /\ call[p].pc = "done" =>
              /\ call[p].resp = "200" => call[p].result = "ok"
              /\ call[p].resp = "404" => call[p].result = "error"
              /\ call[p].resp \in {"neterr", "500"}
                    => (call[p].result = "error" /\ call[p].i = 3)
              /\ call[p].resp = "quota" => call[p].result = "quota"
              /\ call[p].result \in {"ok", "error", "quota"}

\* C8 witness: a call that gave up after the fourth failed attempt.
C8_Witness ==
    \E p \in Procs :
        /\ call[p].pc = "done"
        /\ call[p].resp = "neterr"
        /\ call[p].i = 3
        /\ call[p].result = "error"

\* ------------------------------------------------------------------------
\* Claims about the resolve handler and the refresher
\* ------------------------------------------------------------------------

\* the requests whose synchronous cold fetch for key k is in progress
ColdFetching(k) ==
    {r \in Reqs : req[r].pc = "fetch" /\ req[r].key = k /\ call[r].pc # "done"}

\* C1: at every point in time at most one synchronous cold-fetch upstream
\* call per key is in progress.
C1_OneColdFetch ==
    \A k \in Keys : Cardinality(ColdFetching(k)) <= 1

\* C2: identical resolve requests that overlap while the envelope is stale
\* and answer stale=true together trigger exactly one refresh: not two of
\* them start a refresh goroutine, and not two of them place a job on the
\* dispatcher queue.
C2_OneEnqueue ==
    \A r1 \in Reqs : \A r2 \in Reqs \ {r1} :
        (/\ req[r1].pc = "done" /\ req[r1].resp = "200cache" /\ req[r1].stale
         /\ req[r2].pc = "done" /\ req[r2].resp = "200cache" /\ req[r2].stale
         /\ req[r1].key = req[r2].key)
        => (/\ ~(req[r1].spawned /\ req[r2].spawned)
            /\ ~(req[r1].enq = "sent" /\ req[r2].enq = "sent"))

\* the goroutines running a refresh (upstream re-fetch) of key k
Refreshing(k) == {g \in Gors : gor[g].pc = "fetch" /\ gor[g].key = k}

\* C3: at no time are two refreshes of the same key executing concurrently.
C3_SerialRefresh ==
    \A k \in Keys : Cardinality(Refreshing(k)) <= 1

\* C9: a negative marker is written only by a resolve whose upstream lookup
\* succeeded and returned no candidate matching the query.
C9_MarkerOnlyOnNoMatch ==
    [][\A k \in Keys :
          (miss'[k] # miss[k] /\ miss'[k] # 0)
          => \E r \in Reqs :
                /\ req[r].pc = "fetch"
                /\ req[r].key = k
                /\ req'[r].pc = "done"
                /\ req'[r].fetch = "nomatch"]_vars

\* C10: a resolve whose cold fetch was refused for quota answers 429.
C10_QuotaGives429 ==
    \A r \in Reqs :
        (req[r].pc = "done" /\ req[r].fetch = "quota") => req[r].resp = "429"

\* C11: a resolve that reads an envelope with staleAfter <= now (the instant
\* now = staleAfter included) answers stale=true with the cached data: it goes
\* on to request the refresh, and makes no upstream call of its own.
C11_StaleHit ==
    [][\A r \in Reqs :
          (/\ req[r].pc = "get" /\ req'[r] # req[r]
           /\ env[req[r].key] # NoEnv
           /\ env[req[r].key].staleAfter <= now)
          => (/\ req'[r].pc = "refetch"
              /\ req'[r].stale
              /\ req'[r].data = env[req[r].key].data
              /\ call'[r] = IdleCall)]_vars

\* what a resolve of key k that ran now, alone, would answer from the cache
\* store as it stands: the marker is looked up first, then the envelope
RepeatAnswer(k) ==
    IF miss[k] # 0 THEN "404cooldown"
    ELSE IF env[k] = NoEnv THEN (IF lock[k] = 0 THEN "fetch" ELSE "202")
    ELSE IF IsStale(env[k], now) THEN "200cache-stale"
    ELSE "200cache"

\* C12: right after a cold resolve answered source=fresh, a repeat resolve of
\* the same key is a fresh cache hit; and a resolve that reads an envelope
\* with now < staleAfter answers source=cache, stale=false with the cached
\* data, and makes no upstream call, enqueues nothing, takes no lock and
\* writes nothing to the cache store.
C12_FreshHit ==
    [][\A r \in Reqs :
          /\ (req[r].pc = "fetch" /\ req'[r].pc = "done" /\ req'[r].resp = "200fresh")
                => RepeatAnswer(req[r].key)' = "200cache"
          /\ (/\ req[r].pc = "get" /\ req'[r] # req[r]
              /\ env[req[r].key] # NoEnv
              /\ now < env[req[r].key].staleAfter)
             => (/\ req'[r].pc = "done"
                 /\ req'[r].resp = "200cache"
                 /\ ~req'[r].stale
                 /\ req'[r].data = env[req[r].key].data
                 /\ ~req'[r].spawned /\ req'[r].enq = "none"
                 /\ UNCHANGED <<call, sent, redisVars, refVars, gor>>)]_vars

\* C12 as amended: right after a cold resolve answered source=fresh, a repeat
\* resolve of the same key is a fresh cache hit unless a negative marker for
\* the key is stored (left by an overlapping resolve; the marker is looked up
\* before the envelope); and a resolve that reads an envelope with
\* now < staleAfter answers source=cache, stale=false with the cached data,
\* and makes no upstream call, enqueues nothing, takes no lock and writes
\* nothing to the cache store.
C12_FreshHitAmended ==
    [][\A r \in Reqs :
          /\ (req[r].pc = "fetch" /\ req'[r].pc = "done" /\ req'[r].resp = "200fresh")
                => (/\ RepeatAnswer(req[r].key)' \in {"200cache", "404cooldown"}
                    /\ miss'[req[r].key] = 0 => RepeatAnswer(req[r].key)' = "200cache")
          /\ (/\ req[r].pc = "get" /\ req'[r] # req[r]
              /\ env[req[r].key] # NoEnv
              /\ now < env[req[r].key].staleAfter)
             => (/\ req'[r].pc = "done"
                 /\ req'[r].resp = "200cache"
                 /\ ~req'[r].stale
                 /\ req'[r].data = env[req[r].key].data
                 /\ ~req'[r].spawned /\ req'[r].enq = "none"
                 /\ UNCHANGED <<call, sent, redisVars, refVars, gor>>)]_vars

\* C12 witness: a repeat resolve has been answered from the envelope a cold
\* resolve wrote, as a fresh hit.
C12_Witness ==
    \E r \in Reqs :
        /\ req[r].pc = "done"
        /\ req[r].resp = "200cache"
        /\ ~req[r].stale
        /\ env[req[r].key] # NoEnv
        /\ req[r].data = env[req[r].key].data
        /\ env[req[r].key].lastFetch = now

\* C13: a resolve that took the lock makes exactly one postal search and
\* then, if a candidate of the page matches the query, answers 200 fresh
\* with the first matching candidate in page order and stores the envelope
\* (stale after 5 minutes, expiring after ttlSeconds = 1 hour); if the search
\* succeeded and no candidate matches, it answers 404 and stores the negative
\* marker with the negative TTL; no further upstream call is made.
C13_ColdFetch ==
    [][\A r \in Reqs :
          (req[r].pc = "fetch" /\ req'[r].pc = "done") =>
             LET k == req[r].key
                 cs == req'[r].cards
             IN
             /\ req'[r].searches = 1
             /\ call'[r] = IdleCall
             /\ (\E j \in 1..Len(cs) : cs[j] \in Matching) =>
                   /\ req'[r].resp = "200fresh"
                   /\ ~req'[r].stale
                   /\ \E j \in 1..Len(cs) :
                         /\ cs[j] \in Matching
                         /\ \A m \in 1..(j - 1) : cs[m] \notin Matching
                         /\ req'[r].data = cs[j]
                   /\ env'[k] = [lastFetch |-> now, staleAfter |-> now + 300,
                                 expiry |-> now + 3600, data |-> req'[r].data]
                   /\ miss' = miss
             /\ req'[r].fetch = "nomatch" =>
                   /\ req'[r].resp = "404"
                   /\ miss'[k] = now + 60
                   /\ env' = env]_vars

\* C13 witness: the page held two matching candidates and the first one was
\* served and stored.
C13_Witness ==
    \E r \in Reqs :
        /\ req[r].pc = "done"
        /\ req[r].resp = "200fresh"
        /\ req[r].cards = <<"a", "b">>
        /\ req[r].data = "a"
        /\ env[req[r].key].data = "a"
        /\ env[req[r].key].lastFetch = now

\* C14: a resolve that looks up the negative marker of its key while the
\* marker exists answers 404 not_found at once and does nothing else: no
\* upstream call, no lock, no refresh, no write to the cache store, whether
\* or not an envelope is stored for the key.
C14_MarkerFirst ==
    [][\A r \in Reqs :
          (req[r].pc = "exists" /\ req'[r] # req[r] /\ miss[req[r].key] # 0)
          => (/\ req'[r].pc = "done"
              /\ req'[r].resp = "404cooldown"
              /\ ~req'[r].spawned /\ req'[r].enq = "none" /\ req'[r].searches = 0
              /\ UNCHANGED <<call, sent, redisVars, refVars, gor>>)]_vars

\* C14 witness: a resolve was answered 404 from the marker although an
\* envelope is stored for the key.
C14_Witness ==
    \E r \in Reqs :
        /\ req[r].pc = "done"
        /\ req[r].resp = "404cooldown"
        /\ miss[req[r].key] # 0
        /\ env[req[r].key] # NoEnv

\* C15: a resolve on a cold miss whose set-if-absent finds the lock held
\* answers 202 in_progress and does nothing else: no upstream call, no
\* envelope write, no marker write.
C15_LockHeld ==
    [][\A r \in Reqs :
          (req[r].pc = "setnx" /\ req'[r] # req[r] /\ lock[req[r].key] # 0)
          => (/\ req'[r].pc = "done"
              /\ req'[r].resp = "202"
              /\ req'[r].searches = 0
              /\ UNCHANGED <<call, sent, redisVars, refVars, gor>>)]_vars

\* C15 witness: a resolve was answered 202 while another one holds the lock
\* and is fetching.
C15_Witness ==
    \E r \in Reqs : \E q \in Reqs \ {r} :
        /\ req[r].pc = "done"
        /\ req[r].resp = "202"
        /\ req[q].pc = "fetch"
        /\ req[q].key = req[r].key
        /\ lock[req[r].key] # 0

\* ------------------------------------------------------------------------
\* Claims about the Refresher
\* ------------------------------------------------------------------------

\* C16: an Enqueue of a key that is in the in-flight set (queued, executing
\* or being enqueued by another caller) changes neither the queue nor the
\* set and returns at once.
C16_EnqueueIdempotent ==
    [][\A r \in Reqs :
          (req[r].pc = "enqueue" /\ req'[r] # req[r] /\ req[r].key \in inFly)
          => (/\ ch' = ch
              /\ inFly' = inFly
              /\ req'[r].pc = "done"
              /\ req'[r].enq = "dup")]_vars

\* C16 witness: an Enqueue returned as a no-op while another caller was
\* enqueueing the same key.
C16_Witness ==
    \E r \in Reqs : \E q \in Reqs \ {r} :
        /\ req[r].pc = "done"
        /\ req[r].enq = "dup"
        /\ req[q].pc = "send"
        /\ req[q].key = req[r].key

\* C17: the queue never holds more than its capacity; the select of Enqueue
\* always completes: with room the job is appended, with the queue full the
\* job is dropped and the key leaves the in-flight set in the same step, so
\* that the next Enqueue of the key is not taken for a duplicate.
C17_DropWhenFull ==
    [][/\ Len(ch') <= capacity'
       /\ \A r \in Reqs :
             (req[r].pc = "send" /\ req'[r] # req[r]) =>
                /\ req'[r].pc = "done"
                /\ Len(ch) < capacity =>
                      (ch' = Append(ch, req[r].key) /\ req'[r].enq = "sent")
                /\ Len(ch) >= capacity =>
                      (/\ ch' = ch
                       /\ req'[r].enq = "dropped"
                       /\ req[r].key \notin inFly'
                       /\ inFly' = inFly \ {req[r].key})]_vars

\* C17 witness: a job was dropped with the queue full, and its key is free
\* to be enqueued again.
C17_Witness ==
    \E r \in Reqs :
        /\ req[r].pc = "done"
        /\ req[r].enq = "dropped"
        /\ Len(ch) = capacity
        /\ req[r].key \notin inFly

\* C18: the refresh a stale hit started is not cancelled with the request:
\* cancelling the request changes nothing about the refresh goroutine or its
\* upstream call, and that call is ended by a done context only once the
\* goroutine's own 15 s timeout has passed.
C18_RefreshDetached ==
    [][\A g \in Gors :
          /\ (\E r \in Reqs : ~req[r].cancelled /\ req'[r].cancelled)
                => (gor'[g] = gor[g] /\ call'[g] = call[g])
          /\ (call[g].pc \in {"wait", "net"} /\ call'[g].resp = "ctx")
                => now >= gor[g].deadline
          /\ (gor[g].pc = "fetch" /\ gor'[g].pc = "idle" /\ call[g].result = "error")
                => call[g].resp \in {"neterr", "ctx"}]_vars

\* C18 witness: the request that triggered the refresh has been cancelled
\* and the refresh has fetched a match and is about to store it.
C18_Witness ==
    \E r \in Reqs : \E g \in Gors :
        /\ req[r].cancelled
        /\ req[r].spawned
        /\ gor[g].key = req[r].key
        /\ gor[g].pc = "fetch"
        /\ call[g].pc = "done"
        /\ call[g].result = "ok"
        /\ now < gor[g].deadline

\* C19: on a cold miss with a matching candidate the resolve answers 200
\* fresh with the matched candidate and has stored the envelope, whether the
\* write-behind succeeded, failed, or was not wired at all.
C19_PersistNonFatal ==
    [][\A r \in Reqs :
          (req[r].pc = "fetch" /\ req'[r].pc = "done" /\ req'[r].fetch = "found")
          => (/\ req'[r].persist \in {"none", "ok", "err"}
              /\ req'[r].resp = "200fresh"
              /\ req'[r].data = MatchedCard(req'[r].cards)
              /\ env'[req[r].key] = ResolveEnvelope(now, req'[r].data))]_vars

\* C19 witness: a resolve answered 200 fresh although Hydrator.Write
\* returned an error, and the envelope is stored.
C19_Witness ==
    \E r \in Reqs :
        /\ req[r].pc = "done"
        /\ req[r].persist = "err"
        /\ req[r].resp = "200fresh"
        /\ env[req[r].key] # NoEnv
        /\ env[req[r].key].data = req[r].data

\* ------------------------------------------------------------------------
\* Claims about the bulk job
\* ------------------------------------------------------------------------

\* C20: when a page fetch or a photo sub-fetch of a bulk run returns the
\* quota error, RunOnce returns that error at once, and a run that has
\* returned has no upstream call in progress and starts none.
C20_QuotaAborts ==
    [][\A b \in Bulks :
          /\ (/\ bulk.pc \in {"fetching", "photos"}
              /\ call[b].pc = "done" /\ call[b].result = "quota"
              /\ call'[b] # call[b])
             => (bulk'.pc = "done" /\ bulk'.ret = "quota" /\ call'[b] = IdleCall)
          /\ bulk'.pc = "done" => call'[b].pc = "idle"]_vars

\* C20 as amended: as above, except that RunOnce returns the context's error
\* instead of the quota error when the run's context has been cancelled by
\* the time the quota error reaches it.
C20_QuotaAbortsAmended ==
    [][\A b \in Bulks :
          /\ (/\ bulk.pc \in {"fetching", "photos"}
              /\ call[b].pc = "done" /\ call[b].result = "quota"
              /\ call'[b] # call[b])
             => (/\ bulk'.pc = "done"
                 /\ bulk'.ret = IF bulk.cancelled THEN "ctx" ELSE "quota"
                 /\ bulk'.pair = bulk.pair /\ bulk'.page = bulk.page
                 /\ call'[b] = IdleCall)
          /\ bulk'.pc = "done" => call'[b].pc = "idle"]_vars

\* C20 witness: a photo sub-fetch was refused for quota while candidates of
\* the page and a further pair remained, and the run has returned the quota
\* error.
C20_Witness ==
    /\ bulk.pc = "done"
    /\ bulk.ret = "quota"
    /\ bulk.quota
    /\ bulk.fetchPhotos
    /\ bulk.left = 2
    /\ bulk.pair < PairCount
    /\ \A b \in Bulks : call[b].pc = "idle"

\* C21: within one (zip, propertyType) pair the pages are requested in the
\* order 1, 2, ..., never more than MaxPagesPerZip of them, and every page
\* that was followed by another request of the pair was a full one: after a
\* page with no card, with fewer cards than pageSize, or a failed fetch, no
\* further page of the pair is requested.
C21_PagesInOrder ==
    LET s == bulk.seen IN
    /\ Len(s) <= BulkMaxPages
    /\ \A i \in 1..(Len(s) - 1) : s[i] = BulkPageSize
    /\ bulk.pc = "fetching" => (bulk.page = Len(s) + 1 /\ bulk.page <= BulkMaxPages)
    /\ bulk.pc \in {"card", "photos", "pause"} => bulk.page = Len(s)

\* the run has gone on to the second pair, the first pair having had a full
\* first page and then a short second page
C21_Witness ==
    /\ bulk.pc = "page"
    /\ bulk.pair = 2
    /\ bulk.page = 1
    /\ Len(bulk.seen) = 2
    /\ bulk.seen[1] = BulkPageSize
    /\ bulk.seen[2] > 0
    /\ bulk.seen[2] < BulkPageSize

\* ------------------------------------------------------------------------
\* Claims about the canonicalizer
\* ------------------------------------------------------------------------

\* C30: feeding the four normalized fields Canonicalize returned for any raw
\* address back into Canonicalize returns the same four fields and the same
\* property key.
C30_FixedPoint == canon.pc = "twice" => canon.twice = canon.once

\* ------------------------------------------------------------------------
\* Claims about the store
\* ------------------------------------------------------------------------

\* C26: WriteSnapshotAndUpsert is all or nothing. The committed tables, which
\* are what other transactions see, change only when the commit of a call
\* succeeds, and then to the outcome of all its statements at once; a call
\* in which any step failed returns an error with the committed tables
\* exactly as they were before the call.
C26_Atomic ==
    [][/\ store' # store
             => (/\ tx.pc = "commit"
                 /\ tx'.pc = "done"
                 /\ tx'.err = "none"
                 /\ store' = tx.work
                 /\ tx.op = "write"
                       => store' = WriteSnapshotAndUpsert(tx.pre, tx.in).st)
       /\ (tx'.pc = "done" /\ tx'.err # "none")
             => (store' = tx'.pre /\ store' = store)]_vars

\* a write to a stored listing with photos has failed at its commit, after
\* its transaction had replaced the photos and inserted the snapshot
C26_Witness ==
    /\ tx.pc = "done"
    /\ tx.op = "write"
    /\ tx.err = "db"
    /\ Len(tx.work.snaps) = Len(store.snaps) + 1
    /\ Len(store.lists) > 0
    /\ tx.row \in 1..Len(store.lists)
    /\ store.photos[tx.row] # <<>>
    /\ tx.work.photos[tx.row] # store.photos[tx.row]
    /\ tx.work.props # store.props

\* C27: after any sequence of writes no two property rows have the same
\* property key, no two listing rows the same (provider, source id, listing
\* id), a NULL listing id included, and every listing row refers to a
\* property row.
C27_UniqueRows ==
    /\ \A i, j \in 1..Len(store.props) :
          store.props[i].key = store.props[j].key => i = j
    /\ \A i, j \in 1..Len(store.lists) :
          (/\ store.lists[i].provider = store.lists[j].provider
           /\ store.lists[i].src = store.lists[j].src
           /\ store.lists[i].lid = store.lists[j].lid) => i = j
    /\ \A i \in 1..Len(store.lists) : store.lists[i].prop \in 1..Len(store.props)

\* C28: snapshot rows are append-only. No step changes or removes a stored
\* snapshot row; the only step that adds one is the successful commit of a
\* WriteSnapshotAndUpsert, which adds exactly one row with the SHA-256 digest
\* of its payload, whatever is stored already; so the rows number as many as
\* the writes that succeeded.
C28_AppendOnly ==
    [][/\ Len(store'.snaps) >= Len(store.snaps)
       /\ SubSeq(store'.snaps, 1, Len(store.snaps)) = store.snaps
       /\ (tx.op = "write" /\ tx.pc = "commit" /\ tx'.pc = "done" /\ tx'.err = "none")
             => store'.snaps = Append(store.snaps, [ext |-> tx.in.ext,
                                                    sha |-> Sha256(tx.in.raw)])
       /\ store'.snaps # store.snaps
             => (tx.op = "write" /\ tx.pc = "commit" /\ tx'.err = "none")
       /\ Len(store'.snaps) = tx'.wins]_vars

\* a second write of the same payload has succeeded: two rows, one digest
C28_Witness ==
    /\ tx.pc = "done"
    /\ tx.op = "write"
    /\ tx.err = "none"
    /\ Len(store.snaps) = 2
    /\ store.snaps[1].sha = store.snaps[2].sha
    /\ store.snaps[2].sha = Sha256(tx.in.raw)

C22_SkipsFailure ==
    [][\A b \in Bulks :
          /\ (/\ bulk.pc \in {"persist", "photos"}
              /\ bulk'.pc # bulk.pc
              /\ ~(bulk.pc = "photos" /\ call[b].result = "quota"))
             => (/\ bulk'.pc \in {"card", "photos"}
                 /\ bulk'.pc = "card" => (/\ bulk'.left = bulk.left - 1
                                          /\ Len(bulk'.outs) = Len(bulk.outs) + 1)
                 /\ bulk'.pair = bulk.pair /\ bulk'.page = bulk.page
                 /\ bulk'.n = bulk.n
                 /\ bulk'.joined = bulk.joined /\ bulk'.ret = bulk.ret)
          /\ bulk.pc \in {"card", "persist", "photos"}
             => Len(bulk.outs) + bulk.left = bulk.n
          /\ (bulk.pc = "card" /\ bulk.left = 0 /\ bulk'.pc # "card")
             => (/\ bulk'.pc = "pause" <=> bulk.n = BulkPageSize
                 /\ bulk'.pc # "pause" => bulk' = NextPair(bulk))
          /\ (bulk'.joined /\ ~bulk.joined) => bulk.pc = "fetching"]_vars

\* C22 witness: the first card of a full page failed to persist, the second
\* was persisted, and the job is fetching the second page of the pair with
\* no error joined
C22_Witness ==
    /\ bulk.pc = "fetching"
    /\ bulk.page = 2
    /\ bulk.outs = <<"err", "ok">>
    /\ bulk.skipped
    /\ ~bulk.joined
    /\ bulk.ret = "none"

\* C23: the job sends a photo request upstream only with FetchPhotos set and
\* only for a listing that has no stored photo; the stored photos of a
\* listing that has some are never changed by the job; with FetchPhotos unset
\* GetPhotos is never called.
C23_PhotosOnlyIfLacking ==
    [][/\ \A b \in Bulks :
            (bulk.pc = "photos" /\ sent' # sent)
            => (/\ bulk.fetchPhotos
                /\ LookupListing(store, bulk.card) # 0
                /\ store.photos[LookupListing(store, bulk.card)] = <<>>)
       /\ \A row \in 1..Len(store.photos) :
            store.photos[row] # <<>> => store'.photos[row] = store.photos[row]
       /\ ~bulk.fetchPhotos => bulk'.pc # "photos"]_vars

\* C24: without an interval Run calls RunOnce exactly once and returns what
\* it returned. With an interval Run calls RunOnce once at the start and then
\* once for each tick its select takes, each run starting only after the
\* run before has returned, and Run returns only when the context has been
\* cancelled, whatever the runs returned.
C24_RunModes ==
    [][/\ bulk.pc # "idle" => bulk.runs >= 1
       /\ ~bulk.interval => bulk.runs <= 1
       /\ (bulk.pc = "returned" /\ ~bulk.interval)
          => (bulk.runs = 1 /\ bulk.runRet = bulk.ret)
       /\ (bulk'.pc = "returned" /\ bulk.pc # "returned")
          => (/\ bulk.pc = "done"
              /\ bulk'.ret = bulk.ret
              /\ bulk.interval => (bulk.cancelled /\ bulk'.runRet = "nil"))
       /\ bulk'.runs # bulk.runs
          => (/\ bulk'.runs = bulk.runs + 1
              /\ bulk'.pc = "page"
              /\ IF bulk.runs = 0 THEN bulk.pc = "idle"
                 ELSE /\ bulk.interval
                      /\ bulk.pc = "done"
                      /\ bulk.tick /\ ~bulk'.tick
                      /\ bulk'.prev = bulk.ret)]_vars

\* C24 witness: with an interval, the first run returned the quota error, a
\* second run was made on the next tick, and Run returned nil once the
\* context was cancelled
C24_Witness ==
    /\ bulk.pc = "returned"
    /\ bulk.interval
    /\ bulk.runs = 2
    /\ bulk.prev = "quota"
    /\ bulk.cancelled
    /\ bulk.runRet = "nil"

C31_UnitIgnored ==
    canon.pc = "pair" => canon.once.key = canon.bare.key

\* the jobs for key k that are queued or being executed
Jobs(k) ==
    Cardinality({i \in 1..Len(ch) : ch[i] = k})
    + Cardinality({w \in Workers : worker[w].pc \in {"do", "defer"} /\ worker[w].key = k})

\* C32: for every key at most one job is queued or being executed, and while
\* there is one the key is in the in-flight set.
C32_OneJobPerKey ==
    \A k \in JobKeys : Jobs(k) <= 1 /\ (Jobs(k) = 1 => k \in inFly)

\* C32 witness: a job is being executed while a job for the other key waits
\* in the queue, and an Enqueue of the key being executed has just returned
\* as a duplicate
C32_Witness ==
    \E w \in Workers : \E r \in Reqs :
        /\ worker[w].pc = "do"
        /\ Len(ch) = 1
        /\ ch[1] # worker[w].key
        /\ req[r].pc = "done"
        /\ req[r].enq = "dup"
        /\ req[r].key = worker[w].key

\* C33: under fair scheduling every queued key comes to be executed and
\* every key in the in-flight set comes to leave it; a worker removes the key
\* of its job only once the action has returned, and then in its next step,
\* whether the action did its work or failed.
C33_Drains ==
    /\ \A k \in JobKeys :
          /\ (\E i \in 1..Len(ch) : ch[i] = k)
                ~> (\E w \in Workers : worker[w].pc = "do" /\ worker[w].key = k)
          /\ (k \in inFly) ~> (k \notin inFly)
    /\ [][\A w \in Workers :
             /\ (worker[w].pc = "do" /\ worker'[w] # worker[w])
                => (worker'[w].pc = "defer" /\ worker[w].key \in inFly')
             /\ (worker[w].pc = "defer" /\ worker'[w] # worker[w])
                => (worker[w].key \notin inFly' /\ worker'[w] = IdleWorker)]_vars

\* C33 witness: the action of a job has returned and its key is still in the
\* in-flight set, about to be removed, while the other key waits in the queue
C33_Witness ==
    \E w \in Workers :
        /\ worker[w].pc = "defer"
        /\ worker[w].key \in inFly
        /\ Len(ch) = 1
        /\ ch[1] # worker[w].key

\* ------------------------------------------------------------------------
\* Claims about the client's gate and limiter
\* ------------------------------------------------------------------------

\* what client c has counted for the current UTC day
CountedToday(c) == IF dayKey[c] = today THEN dayCount[c] ELSE 0

\* C34: an attempt is handed to the network only by the gate, in the step
\* that counts it, dayCount going up by one from what the gate found for the
\* day; no answer to an attempt changes dayCount; and while the UTC day stays
\* the same, what has been counted for that day never goes down.
C34_Pessimistic ==
    [][\A c \in Clients :
          /\ (dailyLimit[c] > 0 /\ sent'[c] # sent[c])
             => \E p \in Procs :
                   /\ ClientOf(p) = c
                   /\ call[p].pc = "gate" /\ call'[p].pc = "net"
                   /\ dayCount'[c] = ResetCount(dayKey[c], call[p].dayRead, dayCount[c]) + 1
          /\ (\E p \in Procs : call[p].pc = "net" /\ call'[p] # call[p])
             => dayCount' = dayCount
          /\ today' = today => CountedToday(c)' >= CountedToday(c)]_vars

\* C35 as stated: a call leaves the limiter's wait either with a token, or
\* failed for good, having sent nothing and counted nothing.
C35_WaitEndsCall ==
    [][\A p \in Callers :
          (call[p].pc = "wait" /\ call'[p] # call[p]) =>
              \/ /\ TokenReady(limiter[ClientOf(p)])
                 /\ call'[p].pc \in {"gate", "net"}
              \/ /\ call'[p].pc = "done"
                 /\ call'[p].result = "error"
                 /\ sent' = sent
                 /\ dayCount' = dayCount]_vars

\* C35: a call leaves the rate limiter's wait with a token taken from the
\* bucket, or with an error that sends nothing, counts nothing and takes no
\* token: the caller's context being done fails the call, while a wait that
\* would pass the attempt's own deadline fails that attempt, which Do
\* retries (waiting again) while retries remain. The daily-budget check is
\* reached only from the wait.
C35_WaitEndsAttempt ==
    [][\A p \in Callers :
          LET c == ClientOf(p) IN
          /\ (call[p].pc = "wait" /\ call'[p] # call[p]) =>
                \/ /\ limiter[c].tokens > 0
                   /\ limiter'[c].tokens = limiter[c].tokens - 1
                   /\ call'[p].pc = "gate"
                   /\ sent' = sent /\ dayCount' = dayCount
                \/ /\ call'[p].resp \in {"ctx", "neterr"}
                   /\ limiter' = limiter
                   /\ sent' = sent /\ dayCount' = dayCount /\ dayKey' = dayKey
                   /\ IF call'[p].resp = "neterr" /\ call[p].i < RetryMax
                      THEN call'[p].pc = "wait" /\ call'[p].i = call[p].i + 1
                      ELSE call'[p].pc = "done" /\ call'[p].result = "error"
          /\ (call'[p].pc = "gate" /\ call[p].pc # "gate") => call[p].pc = "wait"
          /\ (call'[p].pc = "net" /\ call[p].pc # "net") => call[p].pc = "gate"]_vars

\* C35 witness: with the bucket empty and another call on the wire, a call's
\* first attempt was ended in the limiter and its retry waits there again.
C35_Witness ==
    \E p, q \in Callers :
        /\ call[p].pc = "wait" /\ call[p].resp = "neterr" /\ call[p].i = 1
        /\ call[q].pc = "net"
        /\ limiter["server"].tokens = 0

\* ------------------------------------------------------------------------
\* Claims about the event channel
\* ------------------------------------------------------------------------

\* C36: publishing never blocks the write path: once WriteSnapshotAndUpsert
\* has returned, Hydrator.Write can always return, publishing adds the event
\* if the channel has room and discards it if not, so the channel never
\* holds more events than its buffer size; and an event enters the channel
\* only for a write that has committed.
C36_PublishNeverBlocks ==
    /\ [](Len(pub.ch) <= pub.cap)
    /\ []((tx.pc = "done" /\ tx.op = "write") => ENABLED HydratorReturn)
    /\ [][/\ (tx.pc = "done" /\ tx'.pc = "idle") =>
                pub'.ch = IF tx.err = "none" /\ Len(pub.ch) < pub.cap
                          THEN Append(pub.ch, PropertyUpdated(tx.pid, tx.in.key))
                          ELSE pub.ch
          /\ Len(pub'.ch) > Len(pub.ch) =>
                /\ tx.pc = "done" /\ tx.err = "none" /\ tx.wins > 0
                /\ store = tx.work
                /\ \E i \in 1..Len(store.props) :
                      i = tx.pid /\ store.props[i].key = tx.in.key]_vars

\* C36 witness: a second write has committed while the channel is full with
\* the event of the first, and Hydrator.Write is about to publish.
C36_Witness ==
    /\ tx.pc = "done" /\ tx.op = "write" /\ tx.err = "none"
    /\ tx.wins = 2
    /\ Len(pub.ch) = pub.cap

\* ------------------------------------------------------------------------
\* Claims about the lock and about Redis being unreachable
\* ------------------------------------------------------------------------

\* C37: resolve never releases the lock. A lock that is set was set by a
\* SetNX to expire 8 s later and changes only by expiring, whatever the
\* fetch made of it; and while it is set and no fetch for the key is
\* running, a resolve that reaches SetNX (having found no marker and no
\* envelope it could read) is answered 202 in_progress, without an upstream
\* call and without a write to Redis.
C37_LockKeptUntilExpiry ==
    [][\A k \in Keys :
          /\ (lock[k] = 0 /\ lock'[k] # 0) =>
                (lock'[k] = now + LockTTL /\ \E r \in Reqs : req[r].pc = "setnx" /\ req'[r].pc = "fetch")
          /\ lock[k] # 0 =>
                \/ lock'[k] = lock[k]
                \/ lock'[k] = 0 /\ now' >= lock[k] /\ now' > now
          /\ \A r \in Reqs :
                (/\ lock[k] # 0 /\ req[r].key = k
                 /\ req[r].pc = "setnx" /\ req'[r].pc # "setnx"
                 /\ \A q \in Reqs : req[q].pc # "fetch")
                => /\ req'[r].pc = "done" /\ req'[r].resp = "202"
                   /\ call' = call /\ sent' = sent /\ dayCount' = dayCount
                   /\ UNCHANGED redisVars]_vars

\* C37 witness: a fetch has ended (404, its marker write lost to a Redis
\* outage), Redis answers again, the lock is still set with neither marker
\* nor envelope, and the next resolve of the key stands at SetNX.
C37_Witness ==
    \E r \in Reqs : \E q \in Reqs \ {r} :
        /\ req[q].pc = "done" /\ req[q].resp = "404" /\ req[q].searches = 1
        /\ req[r].pc = "setnx" /\ req[r].key = req[q].key
        /\ redisUp
        /\ lock[req[r].key] # 0
        /\ miss[req[r].key] = 0
        /\ env[req[r].key] = NoEnv

\* C40: with Redis unreachable resolve fails closed. While the server does
\* not answer, the marker lookup finds nothing, the envelope read finds
\* nothing and the SetNX, treated like a lock that is held, ends the request
\* with 202 in_progress: no upstream call is started, nothing is sent or
\* counted, and no request is answered from the cache or with the cooldown.
C40_FailsClosed ==
    [][\A r \in Reqs :
          (~redisUp /\ req'[r].pc # req[r].pc) =>
              /\ req[r].pc = "exists" => req'[r].pc = "get"
              /\ req[r].pc = "get" => req'[r].pc = "setnx"
              /\ req[r].pc = "setnx" =>
                    /\ req'[r].pc = "done" /\ req'[r].resp = "202"
                    /\ req'[r].searches = 0
                    /\ call' = call /\ sent' = sent /\ dayCount' = dayCount
                    /\ UNCHANGED redisVars]_vars

\* C40 witness: a valid request made while Redis is unreachable, with no
\* lock set and nothing cached, has gone through all three commands and
\* been answered 202 in_progress without a search.
C40_Witness ==
    \E r \in Reqs :
        /\ ~redisUp
        /\ req[r].pc = "done" /\ req[r].resp = "202" /\ req[r].searches = 0
        /\ lock[req[r].key] = 0
        /\ miss[req[r].key] = 0
        /\ env[req[r].key] = NoEnv
        /\ \A p \in Reqs : call[p].pc = "idle"
        /\ \A d \in Days : sent["server"][d] = 0

\* ------------------------------------------------------------------------
\* Claims about the background refresh
\* ------------------------------------------------------------------------

\* C38: a background refresh that fails (upstream error, quota, mapping
\* error) or finds no matching candidate changes no key of the cache store:
\* the envelope stays as it was and no marker is written, and a resolve
\* that reads the envelope afterwards is served its data. A refresh that
\* finds a match replaces the envelope by one with that candidate, fetched
\* now, stale 5 minutes from now and expiring an hour from now, and changes
\* nothing else.
C38_FailedRefreshKeepsCache ==
    [][/\ \A g \in DetachGors : \A pl \in Payloads :
             GorFetched(g, pl) =>
                IF FetchOutcome(call[g].result, pl) \in {"error", "quota", "maperr", "nomatch"}
                THEN UNCHANGED redisVars
                ELSE /\ env'[gor[g].key].data = MatchedCard(pl.cards)
                     /\ env'[gor[g].key].lastFetch = now
                     /\ env'[gor[g].key].staleAfter = now + 300
                     /\ env'[gor[g].key].expiry = now + 3600
                     /\ \A k \in Keys \ {gor[g].key} : env'[k] = env[k]
                     /\ UNCHANGED <<miss, lock, touch>>
       /\ \A k \in Keys :
             env'[k] # env[k] =>
                \/ \E g \in DetachGors :
                      gor[g].pc = "fetch" /\ gor'[g].pc = "idle" /\ call[g].result = "ok"
                \/ now' >= env[k].expiry
       /\ \A r \in DetachReqs :
             (/\ req[r].pc = "get" /\ req'[r].pc # "get"
              /\ ~req[r].cancelled /\ env[req[r].key] # NoEnv)
             => req'[r].data = env[req[r].key].data /\ req'[r].pc \in {"refetch", "done"}]_vars

\* C38 witness: the refresh of a stale hit has made its upstream call and
\* ended, the envelope is still the one that was there before it, and a
\* later resolve of the key reads it.
C38_Witness ==
    \E r \in DetachReqs :
        /\ \A g \in DetachGors : gor[g].pc = "idle" /\ call[g].pc = "idle"
        /\ sent["server"][today] = 1
        /\ req[r].pc = "get"
        /\ env[req[r].key] = ResolveEnvelope(0 - StaleAfterDur, "a")
        /\ miss[req[r].key] = 0

\* ------------------------------------------------------------------------
\* Claims about the bulk run's page failures
\* ------------------------------------------------------------------------

\* C39: with the context live, a page fetch that failed for another reason
\* than the quota, or a payload that could not be mapped, ends the current
\* pair only: the error is joined and RunOnce takes the next pair at its
\* first page, or after the last pair returns the joined errors. Pairs are
\* taken one after the other in order, only such failures are joined, and a
\* RunOnce that gets through its last pair returns the join if anything was
\* joined and nil if not.
C39_PageFailureEndsPairOnly ==
    [][LET b == CHOOSE x \in Bulks : TRUE
           failed == /\ bulk.pc = "fetching" /\ bulk'.pc # "fetching"
                     /\ ~bulk.cancelled
                     /\ \/ call[b].result = "error"
                        \/ /\ call[b].result = "ok"
                           /\ bulk'.seen = Append(bulk.seen, FetchFailed)
       IN
       /\ failed =>
             /\ bulk'.joined
             /\ IF bulk.pair < PairCount
                THEN bulk'.pc = "page" /\ bulk'.pair = bulk.pair + 1 /\ bulk'.page = 1
                ELSE bulk'.pc = "done" /\ bulk'.ret = "joined"
       /\ bulk'.pair # bulk.pair =>
             \/ bulk'.pair = bulk.pair + 1 /\ bulk.pc \notin {"idle", "done", "returned"}
             \/ bulk'.pair = 1 /\ bulk'.runs = bulk.runs + 1
       /\ (bulk'.joined /\ ~bulk.joined) => failed
       /\ (bulk.pc # "done" /\ bulk'.pc = "done" /\ bulk'.ret \in {"nil", "joined"}) =>
             /\ bulk.pair = PairCount
             /\ bulk'.ret = IF bulk'.joined THEN "joined" ELSE "nil"]_vars

\* C39 witness: RunOnce has returned the joined errors after its last pair,
\* whose own last page was fetched and mapped: the failure was that of an
\* earlier pair and the run went on past it.
C39_Witness ==
    /\ bulk.pc = "done"
    /\ bulk.ret = "joined"
    /\ bulk.pair = PairCount
    /\ ~bulk.cancelled
    /\ Len(bulk.seen) > 0
    /\ bulk.seen[Len(bulk.seen)] # FetchFailed

====
